---- MODULE Spec2Model ----
(***************************************************************************)
(* Model of the change-notification core of simple-navigator:              *)
(* src/src/vault-observer.ts (class VaultObserver), together with the      *)
(* parts of the host (vault tree, window timers, JavaScript Set iteration) *)
(* that its behaviour depends on.                                          *)
(*                                                                         *)
(* Paths are JavaScript strings; they are modelled as sequences of         *)
(* one-character strings so that lastIndexOf / substring are computed      *)
(* as the code computes them.                                              *)
(***************************************************************************)
EXTENDS Integers, Sequences, FiniteSets, TLC

(***************************************************************************)
(* Bounds of the model                                                     *)
(***************************************************************************)
\* total number of raw vault mutations and of calls of getInstance /
\* registerView / unregisterView / cleanup in a behaviour
MaxOps == 3

(***************************************************************************)
(* Program constants                                                       *)
(***************************************************************************)
\* vault-observer.ts:24  private readonly DEBOUNCE_DELAY = 100; // ms
DEBOUNCE_DELAY == 100
\* granularity of the model's clock, in ms
TickStep == DEBOUNCE_DELAY \div 2

\* null / undefined where a view or a handler name is expected
Null == "null"
\* null / undefined where a path or a folder is expected
NoPath == <<"null">>

(***************************************************************************)
(* JavaScript strings                                                      *)
(***************************************************************************)
\* String.prototype.lastIndexOf(ch): 0-based index of the last occurrence, -1 if none
lastIndexOf(s, ch) ==
    LET hits == {i \in 1..Len(s) : s[i] = ch}
    IN  IF hits = {} THEN -1
        ELSE (CHOOSE i \in hits : \A j \in hits : j <= i) - 1

\* String.prototype.substring(0, end): a negative end counts as 0
substring0(s, end) ==
    LET e == IF end < 0 THEN 0 ELSE IF end > Len(s) THEN Len(s) ELSE end
    IN  SubSeq(s, 1, e)

\* the empty string '' (falsy in JavaScript)
EmptyStr == << >>

(***************************************************************************)
(* The host's tree (obsidian TFolder / TFile as the code reads them)       *)
(***************************************************************************)
\* path of the vault root folder, for which isRoot() is true
RootPath == <<"/">>
PathA    == <<"a">>
PathAB   == <<"a", "/", "b">>
PathX    == <<"x">>

Folders == {RootPath, PathA, PathAB, PathX}

\* TFolder.isRoot()
isRoot(folder) == folder = RootPath

\* TAbstractFile.parent of a folder (null for the root)
FolderParent(folder) ==
    CASE folder = RootPath -> NoPath
      [] folder = PathA    -> RootPath
      [] folder = PathAB   -> PathA
      [] folder = PathX    -> RootPath

\* the file objects of the model and their (fixed) names
Files == {"f1"}
FileName(f) == <<"c">>

\* TAbstractFile.path of a file named name whose parent is folder
FilePath(folder, name) ==
    IF isRoot(folder) THEN name ELSE folder \o <<"/">> \o name

(***************************************************************************)
(* calculateAffectedFolders  (vault-observer.ts:97-124)                    *)
(* The JavaScript Set is modelled as a duplicate-free sequence in          *)
(* insertion order, which is what Array.from(folders) returns.             *)
(***************************************************************************)
SeqToSet(s) == {s[i] : i \in 1..Len(s)}

\* Set.prototype.add
SetAdd(s, x) == IF x \in SeqToSet(s) THEN s ELSE Append(s, x)

\* the loop stops after the parent itself
AddAncestors_ParentOnly(folders, current) ==
    IF current # NoPath /\ ~isRoot(current) THEN SetAdd(folders, current) ELSE folders

\* lines 114-118: walk the parent chain upward, excluding the root
RECURSIVE AddAncestors(_, _)
AddAncestors(folders, current) ==
    IF current # NoPath /\ ~isRoot(current)
    THEN AddAncestors(SetAdd(folders, current), FolderParent(current))
    ELSE folders

\* parent is file.parent (NoPath when the entity has no parent link),
\* oldPath is NoPath when the argument is omitted
calculateAffectedFolders(parent, oldPath) ==
    LET s1 == IF parent # NoPath THEN SetAdd(<< >>, parent) ELSE << >>
        oldParentPath ==
            IF oldPath # NoPath /\ oldPath # EmptyStr
            THEN substring0(oldPath, lastIndexOf(oldPath, "/"))
            ELSE EmptyStr
        s2 == IF oldPath # NoPath /\ oldPath # EmptyStr
                 /\ oldParentPath # EmptyStr /\ oldParentPath # parent
              THEN SetAdd(s1, oldParentPath)
              ELSE s1
        s3 == AddAncestors(s2, parent)
    IN  SetAdd(s3, EmptyStr)

(***************************************************************************)
(* State                                                                   *)
(***************************************************************************)
VARIABLES
    \* ---- host: the vault tree
    fileState,       \* f -> "new" (not created yet) | "live" | "gone" (deleted)
    fileParent,      \* f -> TAbstractFile.parent: a folder path, or NoPath
    \* ---- host: window timers and vault listeners
    timers,          \* armed timeouts: records [id, age, delay, owner]
    nextTimer,       \* the id window.setTimeout returns next
    subs,            \* ids of the VaultObserver objects whose listeners the vault holds
    \* ---- class VaultObserver
    instance,        \* static instance: 0 (null) or the id of the object
    created,         \* number of objects constructed; the fields below are those
                     \* of the object constructed last
    views,           \* Set<VaultUpdateHandler>, in insertion order
    eventRefs,       \* number of EventRef held in this.eventRefs
    pendingChanges,  \* VaultChange[]
    debounceTimer,   \* 0 (null) or a timer id
    \* ---- the flush in progress (processPendingChanges / notifyViews frames)
    pc,              \* "idle" | "handler" (a view's handler is running)
    flushInst,       \* id of the object whose flush is running
    changes,         \* the local copy [...this.pendingChanges]
    ci,              \* index in changes of the change being dispatched
    vi,              \* position of the Set iterator: index of the next view
    cur,             \* the view whose handler is running
    \* ---- history (not read by the program)
    clock,           \* time since the last captured mutation, capped
    nMut,            \* number of raw mutations so far
    calls,           \* number of API calls so far
    delivered,       \* view -> sequence of [id, handler, batch] handler invocations
    misuse,          \* number of registerView calls for a registered view and of
                     \* unregisterView calls for a view that is not registered
    captured,        \* per captured change, in capture order: [type, gap, inst,
                     \* during]; during is the number of the flush that was
                     \* dispatching at capture, 0 when none was
    batches,         \* per flush: [ids, gap, start, stable, threw, done];
                     \* threw holds <<view, change id>> of the first handler
                     \* invocation of the flush that threw
    registered,      \* views for which registerView returned last
    regAt,           \* view -> number of flushes started when it registered
    discarded        \* ids of the changes dropped by destroy()

VARIABLES
    \* ---- host: the vault as the file list reads it, the plugin's settings, Date
    tree,            \* file -> [state, path, parent, ctime] (TFile objects)
    pinnedFilesSet,  \* MyPlugin.pinnedFilesSet: paths
    hiddenFilesSet,  \* MyPlugin.hiddenFilesSet: paths
    now,             \* the time new Date() returns, in half days
    \* ---- the aggregator as the file list sees it
    inbox,           \* changes captured and not flushed yet: [type, file, oldPath]
    batch,           \* changes of the running flush whose handler has not run yet
    \* ---- class FolderContainerManager, its DOM, its timeouts and async calls
    fcm,
    \* ---- history (not read by the program)
    rops,            \* number of operations of the environment so far
    last,            \* per file, what the handler of its latest change saw
    \* ---- class NavigatorView: the folder tree it displays
    nav,             \* [folderElements: the paths in the map, count: path ->
                     \* the textContent of the count element]
    \* ---- MyPlugin's suggestion caches (main.ts:157-160) and Date.now()
    dateNow,         \* Date.now(), in ms
    folderCache,     \* null (<< >>) or <<at>>: the time the list was computed from the tree
    fileCache,       \* null (<< >>) or <<at>>
    cacheValidUntil,
    retAge           \* history: age of the list the latest getCached* call returned

reconVars == <<tree, pinnedFilesSet, hiddenFilesSet, now, inbox, batch, fcm, rops, last>>
cacheVars == <<dateNow, folderCache, fileCache, cacheValidUntil, retAge>>
extVars   == <<reconVars, cacheVars, nav>>

hostVars  == <<fileState, fileParent, timers, nextTimer, subs>>
objVars   == <<instance, created, views, eventRefs, pendingChanges, debounceTimer>>
flushVars == <<pc, flushInst, changes, ci, vi, cur>>
histVars  == <<clock, nMut, calls, misuse, captured, delivered, batches, registered, regAt, discarded>>
vars      == <<hostVars, objVars, flushVars, histVars, extVars>>

\* the observers of the model (objects implementing VaultUpdateHandler)
Observers == {"A", "B"}

Types == {"create", "delete", "rename", "modify"}

Min(a, b) == IF a < b THEN a ELSE b

IndexOf(s, x) == CHOOSE i \in 1..Len(s) : s[i] = x

\* number of the flush in progress, or of the last one
flushNo == Len(batches)

(***************************************************************************)
(* Init.  The vault either holds file f1 in folder a/b or does not hold it *)
(* yet.  Either the plugin is not loaded (no VaultObserver exists), or     *)
(* MyPlugin.onload has called getInstance and the views A and B have       *)
(* opened and registered, in this order.                                   *)
(***************************************************************************)
InitHost ==
    /\ \E st \in {"new", "live"} :
          /\ fileState = [f \in Files |-> st]
          /\ fileParent = [f \in Files |-> IF st = "live" THEN PathAB ELSE NoPath]
    /\ timers = {}
    /\ nextTimer = 1

InitObserver ==
    /\ \E loaded \in BOOLEAN :
          /\ instance = (IF loaded THEN 1 ELSE 0)
          /\ created = instance
          /\ subs = (IF loaded THEN {1} ELSE {})
          /\ eventRefs = (IF loaded THEN 4 ELSE 0)
          /\ views = (IF loaded THEN <<"A", "B">> ELSE << >>)
          /\ registered = SeqToSet(views)
    /\ pendingChanges = << >>
    /\ debounceTimer = 0
    /\ pc = "idle"
    /\ flushInst = 0
    /\ changes = << >>
    /\ ci = 0
    /\ vi = 0
    /\ cur = Null
    /\ clock = DEBOUNCE_DELAY
    /\ nMut = 0
    /\ calls = 0
    /\ misuse = 0
    /\ captured = << >>
    /\ delivered = [o \in Observers |-> << >>]
    /\ batches = << >>
    /\ regAt = [o \in Observers |-> 0]
    /\ discarded = {}

\* the file list and the caches are not part of this specification
InitNoList ==
    /\ tree = << >> /\ pinnedFilesSet = {} /\ hiddenFilesSet = {} /\ now = 0
    /\ inbox = << >> /\ batch = << >> /\ fcm = << >> /\ rops = 0 /\ last = << >>

\* the folder tree view is not part of this specification
InitNoNav == nav = << >>

InitNoCache ==
    /\ dateNow = 0 /\ folderCache = << >> /\ fileCache = << >>
    /\ cacheValidUntil = 0 /\ retAge = 0

Init == InitHost /\ InitObserver /\ InitNoList /\ InitNoCache /\ InitNoNav

(***************************************************************************)
(* window.clearTimeout / window.setTimeout                                 *)
(***************************************************************************)
clearTimeout(ts, id) == {t \in ts : t.id # id}

setTimeout(ts, id, owner, delay) ==
    ts \cup {[id |-> id, age |-> 0, delay |-> delay, owner |-> owner]}

(***************************************************************************)
(* queueChange  (vault-observer.ts:126-138), run on the object `created`   *)
(***************************************************************************)
\* the armed timer is not cleared
queueChange_NoClear(change) ==
    /\ pendingChanges' = Append(pendingChanges, change)
    /\ timers' = setTimeout(timers, nextTimer, created, DEBOUNCE_DELAY)
    /\ debounceTimer' = nextTimer
    /\ nextTimer' = nextTimer + 1

\* the timeout is set without its delay
queueChange_NoDelay(change) ==
    /\ pendingChanges' = Append(pendingChanges, change)
    /\ timers' = setTimeout(IF debounceTimer # 0
                            THEN clearTimeout(timers, debounceTimer)
                            ELSE timers,
                            nextTimer, created, 0)
    /\ debounceTimer' = nextTimer
    /\ nextTimer' = nextTimer + 1

queueChange(change) ==
    /\ pendingChanges' = Append(pendingChanges, change)
    /\ timers' = setTimeout(IF debounceTimer # 0
                            THEN clearTimeout(timers, debounceTimer)
                            ELSE timers,
                            nextTimer, created, DEBOUNCE_DELAY)
    /\ debounceTimer' = nextTimer
    /\ nextTimer' = nextTimer + 1

(***************************************************************************)
(* registerVaultEvents listeners (vault-observer.ts:53-95): the vault      *)
(* triggers the event on every listener it holds.  The listener builds the *)
(* VaultChange, computing affectedFolders at once, and queues it.          *)
(* id and parent are history fields: the capture number and the entity's   *)
(* parent link at capture.                                                 *)
(***************************************************************************)
VaultChange(type, f, parent, oldPath) ==
    [ type            |-> type,
      file            |-> f,
      oldPath         |-> oldPath,
      affectedFolders |-> calculateAffectedFolders(parent, oldPath),
      id              |-> Len(captured) + 1,
      parent          |-> parent ]

\* the listener reads file.parent.path unguarded: for an entity without a
\* parent link it throws before queueChange is reached
trigger_Unguarded(type, f, parent, oldPath) ==
    IF created \in subs /\ parent # NoPath
    THEN /\ queueChange(VaultChange(type, f, parent, oldPath))
         /\ clock' = 0
         /\ captured' = Append(captured, [type |-> type, gap |-> clock, inst |-> created,
                                          during |-> IF pc = "handler" THEN flushNo ELSE 0])
    ELSE UNCHANGED <<pendingChanges, timers, debounceTimer, nextTimer, clock, captured>>

trigger(type, f, parent, oldPath) ==
    IF created \in subs
    THEN /\ queueChange(VaultChange(type, f, parent, oldPath))
         /\ clock' = 0
         /\ captured' = Append(captured, [type |-> type, gap |-> clock, inst |-> created,
                                          during |-> IF pc = "handler" THEN flushNo ELSE 0])
    ELSE UNCHANGED <<pendingChanges, timers, debounceTimer, nextTimer, clock, captured>>

\* a raw mutation may happen between tasks or synchronously inside a handler
MayMutate == nMut + calls < MaxOps

MutationFrame ==
    /\ nMut' = nMut + 1
    /\ UNCHANGED <<subs, instance, created, views, eventRefs>>
    /\ UNCHANGED flushVars
    /\ UNCHANGED <<calls, misuse, delivered, batches, registered, regAt, discarded>>
    /\ UNCHANGED extVars

VaultCreate(f, d) ==
    /\ MayMutate
    /\ fileState[f] = "new"
    /\ fileState' = [fileState EXCEPT ![f] = "live"]
    /\ fileParent' = [fileParent EXCEPT ![f] = d]
    /\ trigger("create", f, d, NoPath)
    /\ MutationFrame

\* whether the deleted entity still carries its parent link is up to the host
VaultDelete(f, detached) ==
    /\ MayMutate
    /\ fileState[f] = "live"
    /\ fileState' = [fileState EXCEPT ![f] = "gone"]
    /\ fileParent' = [fileParent EXCEPT ![f] = IF detached THEN NoPath ELSE @]
    /\ trigger("delete", f, IF detached THEN NoPath ELSE fileParent[f], NoPath)
    /\ MutationFrame

VaultRename(f, d) ==
    /\ MayMutate
    /\ fileState[f] = "live"
    /\ d # fileParent[f]
    /\ fileParent' = [fileParent EXCEPT ![f] = d]
    /\ trigger("rename", f, d, FilePath(fileParent[f], FileName(f)))
    /\ MutationFrame
    /\ UNCHANGED fileState

VaultModify(f) ==
    /\ MayMutate
    /\ fileState[f] = "live"
    /\ trigger("modify", f, fileParent[f], NoPath)
    /\ MutationFrame
    /\ UNCHANGED <<fileState, fileParent>>

(***************************************************************************)
(* notifyViews  (vault-observer.ts:154-177)                                *)
(***************************************************************************)
\* the switch of lines 157-172: the handler a change is dispatched to
\* (Null when no handler is invoked: a rename whose oldPath is falsy)
\* the delete case calls the create handler
HandlerFor_Swapped(change) ==
    CASE change.type = "create" -> "handleFileCreate"
      [] change.type = "delete" -> "handleFileCreate"
      [] change.type = "rename" ->
            IF change.oldPath # NoPath /\ change.oldPath # EmptyStr
            THEN "handleFileRename" ELSE Null
      [] change.type = "modify" -> "handleFileModify"

HandlerFor(change) ==
    CASE change.type = "create" -> "handleFileCreate"
      [] change.type = "delete" -> "handleFileDelete"
      [] change.type = "rename" ->
            IF change.oldPath # NoPath /\ change.oldPath # EmptyStr
            THEN "handleFileRename" ELSE Null
      [] change.type = "modify" -> "handleFileModify"

\* this.views as the running flush sees it: the object of a flush that was
\* destroyed meanwhile has an empty Set, whatever object exists now
flushViews == IF flushInst = created THEN views ELSE << >>

\* lines 149-151 and 155: the next handler invocation of the two nested
\* for-of loops from change c, iterator position v, over the views vs;
\* ci = 0 when both loops have ended
RECURSIVE NextCall(_, _, _, _)
NextCall(chs, c, v, vs) ==
    IF c > Len(chs) THEN [ci |-> 0, vi |-> 0]
    ELSE IF v > Len(vs) THEN NextCall(chs, c + 1, 1, vs)
    ELSE IF HandlerFor(chs[c]) = Null THEN NextCall(chs, c, v + 1, vs)
    ELSE [ci |-> c, vi |-> v]

FlushDone(bs) == [bs EXCEPT ![Len(bs)].done = TRUE]

FlushEnds(bs) ==
    /\ pc' = "idle"
    /\ flushInst' = 0
    /\ changes' = << >>
    /\ ci' = 0
    /\ vi' = 0
    /\ cur' = Null
    /\ batches' = FlushDone(bs)
    /\ UNCHANGED delivered

\* run the loops of object inst from (c, v) up to the next handler invocation
Continue(inst, chs, c, v, vs, bs) ==
    LET n == NextCall(chs, c, v, vs)
    IN  IF n.ci = 0
        THEN FlushEnds(bs)
        ELSE /\ pc' = "handler"
             /\ flushInst' = inst
             /\ changes' = chs
             /\ ci' = n.ci
             /\ vi' = n.vi + 1
             /\ cur' = vs[n.vi]
             /\ delivered' = [delivered EXCEPT ![vs[n.vi]] =
                    Append(@, [id      |-> chs[n.ci].id,
                               handler |-> HandlerFor(chs[n.ci]),
                               batch   |-> Len(bs)])]
             /\ batches' = bs

\* lines 156 and 173-175: the handler call is wrapped in try/catch
\* no try/catch: the exception leaves notifyViews and processPendingChanges
Caught_Not == FALSE

Caught == TRUE

(***************************************************************************)
(* processPendingChanges  (vault-observer.ts:140-152), the timer callback  *)
(***************************************************************************)
\* the flush computes affectedFolders anew from the parent link the entity
\* has when the timer fires
CopyOf_Recompute(pending) ==
    [i \in 1..Len(pending) |->
        [pending[i] EXCEPT !.affectedFolders =
            calculateAffectedFolders(fileParent[pending[i].file], pending[i].oldPath)]]

\* line 144: const changes = [...this.pendingChanges]
CopyOf(pending) == pending

\* line 145 is missing: the buffer is not swapped for an empty one
TimerFire_NoSwap(t) ==
    /\ pc = "idle"
    /\ t \in timers
    /\ t.age >= t.delay
    /\ timers' = timers \ {t}
    /\ IF t.owner # created \/ Len(pendingChanges) = 0
       THEN UNCHANGED <<pendingChanges, debounceTimer, flushVars, delivered, batches>>
       ELSE /\ pendingChanges' = pendingChanges
            /\ debounceTimer' = 0
            /\ Continue(created, CopyOf(pendingChanges), 1, 1, views,
                        Append(batches,
                               [ ids    |-> [i \in 1..Len(pendingChanges) |->
                                                pendingChanges[i].id],
                                 gap    |-> clock,
                                 start  |-> SeqToSet(views),
                                 stable |-> SeqToSet(views),
                                 threw  |-> {},
                                 done   |-> FALSE ]))
    /\ UNCHANGED <<fileState, fileParent, nextTimer, subs>>
    /\ UNCHANGED <<instance, created, views, eventRefs>>
    /\ UNCHANGED <<clock, nMut, calls, misuse, captured, registered, regAt, discarded>>
    /\ UNCHANGED extVars

TimerFire(t) ==
    /\ pc = "idle"
    /\ t \in timers
    /\ t.age >= t.delay
    /\ timers' = timers \ {t}
    /\ IF t.owner # created \/ Len(pendingChanges) = 0
       THEN UNCHANGED <<pendingChanges, debounceTimer, flushVars, delivered, batches>>
       ELSE /\ pendingChanges' = << >>
            /\ debounceTimer' = 0
            /\ Continue(created, CopyOf(pendingChanges), 1, 1, views,
                        Append(batches,
                               [ ids    |-> [i \in 1..Len(pendingChanges) |->
                                                pendingChanges[i].id],
                                 gap    |-> clock,
                                 start  |-> SeqToSet(views),
                                 stable |-> SeqToSet(views),
                                 threw  |-> {},
                                 done   |-> FALSE ]))
    /\ UNCHANGED <<fileState, fileParent, nextTimer, subs>>
    /\ UNCHANGED <<instance, created, views, eventRefs>>
    /\ UNCHANGED <<clock, nMut, calls, misuse, captured, registered, regAt, discarded>>
    /\ UNCHANGED extVars

HandlerFrame ==
    /\ UNCHANGED hostVars
    /\ UNCHANGED objVars
    /\ UNCHANGED <<clock, nMut, calls, misuse, captured, registered, regAt, discarded>>
    /\ UNCHANGED extVars

\* the handler of cur returns
HandlerReturn ==
    /\ pc = "handler"
    /\ Continue(flushInst, changes, ci, vi, flushViews, batches)
    /\ HandlerFrame

\* the handler of cur has thrown on changes[ci]
Thrown(bs) ==
    [bs EXCEPT ![Len(bs)].threw = IF @ = {} THEN {<<cur, changes[ci].id>>} ELSE @]

\* the handler of cur throws
HandlerThrow ==
    /\ pc = "handler"
    /\ IF Caught
       THEN Continue(flushInst, changes, ci, vi, flushViews, Thrown(batches))
       ELSE FlushEnds(Thrown(batches))
    /\ HandlerFrame

(***************************************************************************)
(* The static and public API.  Every caller in the repository reaches the  *)
(* object through VaultObserver.getInstance(app).                          *)
(***************************************************************************)
MayCall == nMut + calls < MaxOps

\* constructor + getInstance (vault-observer.ts:26-36); the views of the
\* object it returns are thisViews
getInstance ==
    IF instance = 0
    THEN /\ created' = created + 1
         /\ instance' = created + 1
         /\ eventRefs' = 4
         /\ subs' = subs \cup {created + 1}
         /\ pendingChanges' = << >>
         /\ debounceTimer' = 0
    ELSE UNCHANGED <<created, instance, eventRefs, subs, pendingChanges, debounceTimer>>

thisViews == IF instance = 0 THEN << >> ELSE views

\* the running flush iterates the Set of the object getInstance returns
IteratingThis == pc = "handler" /\ instance # 0 /\ flushInst = created

\* registerView (vault-observer.ts:45-47): Set.prototype.add
\* the views are kept in an array and pushed without a membership test
registerView_Push(vs, view) == Append(vs, view)

registerView(vs, view) == SetAdd(vs, view)

\* unregisterView (vault-observer.ts:49-51): Set.prototype.delete
\* the entry is not deleted
unregisterView_Keep(vs, view) == vs

unregisterView(vs, view) == SelectSeq(vs, LAMBDA x : x # view)

\* a live Set iterator after the entry of view is deleted: the entries behind
\* it move up, so the iterator neither skips nor repeats one
IteratorAfterDelete(vs, view, v) ==
    IF view \in SeqToSet(vs) /\ IndexOf(vs, view) < v THEN v - 1 ELSE v

\* views registered for the whole of the running flush
StableWithout(S) ==
    IF pc = "handler"
    THEN [batches EXCEPT ![Len(batches)].stable = @ \ S]
    ELSE batches

GetInstance ==
    /\ MayCall
    /\ getInstance
    /\ views' = thisViews
    /\ calls' = calls + 1
    /\ UNCHANGED <<fileState, fileParent, timers, nextTimer>>
    /\ UNCHANGED flushVars
    /\ UNCHANGED <<clock, nMut, misuse, captured, delivered, batches, registered, regAt, discarded>>
    /\ UNCHANGED extVars

RegisterView(o) ==
    /\ MayCall
    /\ getInstance
    /\ views' = registerView(thisViews, o)
    /\ calls' = calls + 1
    /\ registered' = registered \cup {o}
    /\ regAt' = IF o \in registered THEN regAt ELSE [regAt EXCEPT ![o] = flushNo]
    /\ UNCHANGED <<fileState, fileParent, timers, nextTimer>>
    /\ UNCHANGED flushVars
    /\ misuse' = IF o \in registered THEN misuse + 1 ELSE misuse
    /\ UNCHANGED <<clock, nMut, captured, delivered, batches, discarded>>
    /\ UNCHANGED extVars

UnregisterView(o) ==
    /\ MayCall
    /\ getInstance
    /\ views' = unregisterView(thisViews, o)
    /\ vi' = IF IteratingThis THEN IteratorAfterDelete(views, o, vi) ELSE vi
    /\ calls' = calls + 1
    /\ registered' = registered \ {o}
    /\ batches' = StableWithout({o})
    /\ UNCHANGED <<fileState, fileParent, timers, nextTimer>>
    /\ UNCHANGED <<pc, flushInst, changes, ci, cur>>
    /\ misuse' = IF o \in registered THEN misuse ELSE misuse + 1
    /\ UNCHANGED <<clock, nMut, captured, delivered, regAt, discarded>>
    /\ UNCHANGED extVars

\* the pending buffer and the timer are left alone
destroy_KeepPending ==
    /\ subs' = subs \ {created}
    /\ eventRefs' = 0
    /\ views' = << >>
    /\ UNCHANGED <<timers, debounceTimer, pendingChanges>>

\* line 192 is missing: the buffer survives destroy()
destroy_KeepBuffer ==
    /\ timers' = IF debounceTimer # 0 THEN clearTimeout(timers, debounceTimer) ELSE timers
    /\ debounceTimer' = 0
    /\ subs' = subs \ {created}
    /\ eventRefs' = 0
    /\ views' = << >>
    /\ UNCHANGED pendingChanges

\* destroy (vault-observer.ts:179-193)
destroy ==
    /\ timers' = IF debounceTimer # 0 THEN clearTimeout(timers, debounceTimer) ELSE timers
    /\ debounceTimer' = 0
    /\ subs' = subs \ {created}
    /\ eventRefs' = 0
    /\ views' = << >>
    /\ pendingChanges' = << >>

\* the static instance is not reset
cleanup_KeepInstance ==
    IF instance # 0
    THEN /\ destroy
         /\ UNCHANGED instance
    ELSE UNCHANGED <<timers, debounceTimer, subs, eventRefs, views, pendingChanges, instance>>

\* cleanup (vault-observer.ts:38-43)
cleanup ==
    IF instance # 0
    THEN /\ destroy
         /\ instance' = 0
    ELSE UNCHANGED <<timers, debounceTimer, subs, eventRefs, views, pendingChanges, instance>>

Cleanup ==
    /\ MayCall
    /\ cleanup
    /\ vi' = IF IteratingThis THEN 1 ELSE vi
    /\ calls' = calls + 1
    /\ registered' = {}
    /\ discarded' = discarded \cup
          (IF instance # 0 THEN {pendingChanges[i].id : i \in 1..Len(pendingChanges)} ELSE {})
    /\ batches' = StableWithout(Observers)
    /\ UNCHANGED <<fileState, fileParent, nextTimer, created>>
    /\ UNCHANGED <<pc, flushInst, changes, ci, cur>>
    /\ UNCHANGED <<clock, nMut, misuse, captured, delivered, regAt>>
    /\ UNCHANGED extVars

(***************************************************************************)
(* Time                                                                    *)
(***************************************************************************)
Tick ==
    /\ pc = "idle"
    /\ \/ clock < DEBOUNCE_DELAY
       \/ \E t \in timers : t.age < DEBOUNCE_DELAY
    /\ clock' = Min(clock + TickStep, DEBOUNCE_DELAY)
    /\ timers' = {[t EXCEPT !.age = Min(t.age + TickStep, DEBOUNCE_DELAY)] : t \in timers}
    /\ UNCHANGED <<fileState, fileParent, nextTimer, subs>>
    /\ UNCHANGED objVars
    /\ UNCHANGED flushVars
    /\ UNCHANGED <<nMut, calls, misuse, captured, delivered, batches, registered, regAt, discarded>>
    /\ UNCHANGED extVars

\* the folders files are created in and moved to
MoveTargets == {PathAB, PathX}

Next ==
    \/ Tick
    \/ \E f \in Files, d \in MoveTargets : VaultCreate(f, d)
    \/ \E f \in Files, detached \in BOOLEAN : VaultDelete(f, detached)
    \/ \E f \in Files, d \in MoveTargets : VaultRename(f, d)
    \/ \E f \in Files : VaultModify(f)
    \/ GetInstance
    \/ \E o \in Observers : RegisterView(o)
    \/ \E o \in Observers : UnregisterView(o)
    \/ Cleanup
    \/ \E t \in timers : TimerFire(t)
    \/ HandlerReturn
    \/ HandlerThrow

Spec == Init /\ [][Next]_vars

(***************************************************************************)
(* The same program over the whole tree, with the plugin loaded and one    *)
(* view registered: files are created in, moved to and deleted from every  *)
(* folder, the root included.                                              *)
(***************************************************************************)
InitTree ==
    /\ \E d \in Folders \cup {NoPath} :
          /\ fileState = [f \in Files |-> IF d = NoPath THEN "new" ELSE "live"]
          /\ fileParent = [f \in Files |-> d]
    /\ timers = {}
    /\ nextTimer = 1
    /\ instance = 1
    /\ created = 1
    /\ subs = {1}
    /\ eventRefs = 4
    /\ views = <<"A">>
    /\ registered = {"A"}
    /\ pendingChanges = << >>
    /\ debounceTimer = 0
    /\ pc = "idle"
    /\ flushInst = 0
    /\ changes = << >>
    /\ ci = 0
    /\ vi = 0
    /\ cur = Null
    /\ clock = DEBOUNCE_DELAY
    /\ nMut = 0
    /\ calls = 0
    /\ misuse = 0
    /\ captured = << >>
    /\ delivered = [o \in Observers |-> << >>]
    /\ batches = << >>
    /\ regAt = [o \in Observers |-> 0]
    /\ discarded = {}
    /\ InitNoList /\ InitNoCache /\ InitNoNav

NextTree ==
    \/ Tick
    \/ \E f \in Files, d \in Folders : VaultCreate(f, d)
    \/ \E f \in Files, detached \in BOOLEAN : VaultDelete(f, detached)
    \/ \E f \in Files, d \in Folders : VaultRename(f, d)
    \/ \E f \in Files : VaultModify(f)
    \/ \E t \in timers : TimerFire(t)
    \/ HandlerReturn

SpecTree == InitTree /\ [][NextTree]_vars

(***************************************************************************)
(* Scheduling: time passes, a due timer's callback gets to run, and a      *)
(* handler that was called returns or throws.                              *)
(***************************************************************************)
Fairness ==
    /\ WF_vars(Tick)
    /\ WF_vars(\E t \in timers : TimerFire(t))
    /\ WF_vars(HandlerReturn \/ HandlerThrow)

FairSpec == Spec /\ Fairness

(***************************************************************************)
(* Vocabulary of the properties                                            *)
(***************************************************************************)
\* the handler invocations of flush k on view o, in the order they happened
DeliveredIn(o, k) == SelectSeq(delivered[o], LAMBDA e : e.batch = k)

\* the handler the contract names for a change of each kind
HandlerOfKind(type) ==
    CASE type = "create" -> "handleFileCreate"
      [] type = "delete" -> "handleFileDelete"
      [] type = "rename" -> "handleFileRename"
      [] type = "modify" -> "handleFileModify"

\* flush k has handed view o every change of its batch, once, in capture order
CompleteFor(o, k) ==
    LET d == DeliveredIn(o, k)
    IN  /\ Len(d) = Len(batches[k].ids)
        /\ \A i \in 1..Len(d) : d[i].id = batches[k].ids[i]

\* the flush that took change id, 0 while no flush has taken it
BatchOf(id) ==
    IF \E k \in 1..Len(batches) : id \in SeqToSet(batches[k].ids)
    THEN CHOOSE k \in 1..Len(batches) : id \in SeqToSet(batches[k].ids)
    ELSE 0

Increasing(ids) == \A i, j \in 1..Len(ids) : i < j => ids[i] < ids[j]

PendingIds == [i \in 1..Len(pendingChanges) |-> pendingChanges[i].id]

\* changes id and id + 1 were captured by the same object less than a
\* quiescence window apart
CloseToNext(id) ==
    /\ id + 1 <= Len(captured)
    /\ captured[id + 1].gap < DEBOUNCE_DELAY
    /\ captured[id + 1].inst = captured[id].inst

(***************************************************************************)
(* C1  Coalescing: mutations that follow one another by less than          *)
(* DEBOUNCE_DELAY are taken by one and the same flush, next to one another *)
(* and in capture order (so a run of N such mutations gets exactly one     *)
(* flush), and that flush hands every observer registered throughout it    *)
(* all the changes of the batch in capture order.                          *)
(***************************************************************************)
C1_Coalescing ==
    /\ \A id \in 1..Len(captured) :
          CloseToNext(id) =>
             /\ BatchOf(id) = BatchOf(id + 1)
             /\ \A k \in 1..Len(batches) : \A i \in 1..Len(batches[k].ids) :
                   batches[k].ids[i] = id =>
                      /\ i + 1 <= Len(batches[k].ids)
                      /\ batches[k].ids[i + 1] = id + 1
    /\ \A k \in 1..Len(batches) :
          batches[k].done => \A o \in batches[k].stable : CompleteFor(o, k)

\* the buffer is emptied again, which only the start of a flush and destroy() do
C1_FlushHappens == (pendingChanges # << >>) ~> (pendingChanges = << >>)

C1_CoalescedAndFlushed == []C1_Coalescing /\ C1_FlushHappens

\* a finished flush that delivered a run of two close mutations to A and B
C1_Witness ==
    \E k \in 1..Len(batches) :
       /\ batches[k].done
       /\ batches[k].stable = {"A", "B"}
       /\ Len(batches[k].ids) = 2
       /\ CloseToNext(batches[k].ids[1])
       /\ captured[batches[k].ids[2]].gap = TickStep
       /\ CompleteFor("A", k) /\ CompleteFor("B", k)

(***************************************************************************)
(* C2  Quiescence reset: at most one timer is armed; it is the one         *)
(* debounceTimer names and its age is the time since the most recent       *)
(* captured mutation (every mutation cancels the armed timer and arms a    *)
(* full-length one); every flush starts a full window after the most       *)
(* recent mutation.                                                        *)
(***************************************************************************)
C2_QuiescenceReset ==
    /\ Cardinality(timers) <= 1
    /\ \A t \in timers : t.id = debounceTimer /\ t.owner = created /\ t.age = clock
    /\ \A k \in 1..Len(batches) : batches[k].gap >= DEBOUNCE_DELAY

\* a second mutation arrived half a window after the first; a full window
\* after the first one nothing has been flushed
C2_Witness ==
    /\ Len(pendingChanges) = 2
    /\ captured[pendingChanges[2].id].gap = TickStep
    /\ clock = TickStep
    /\ batches = << >>
    /\ Cardinality(timers) = 1

(***************************************************************************)
(* C3  No loss, no reordering: every captured change is in exactly one     *)
(* place (pending, taken by exactly one flush, or dropped by destroy);     *)
(* pending and every batch are in capture order; each flush has handed     *)
(* every observer registered throughout it a prefix of its batch, the      *)
(* whole batch when the flush is over, each change once and through the    *)
(* handler of its kind.                                                    *)
(***************************************************************************)
C3_NoLossNoReorder ==
    /\ Increasing(PendingIds)
    /\ \A k \in 1..Len(batches) : Increasing(batches[k].ids)
    /\ \A id \in 1..Len(captured) :
          Cardinality({k \in 1..Len(batches) : id \in SeqToSet(batches[k].ids)})
            + (IF id \in SeqToSet(PendingIds) THEN 1 ELSE 0)
            + (IF id \in discarded THEN 1 ELSE 0) = 1
    /\ \A k \in 1..Len(batches) : \A o \in batches[k].stable :
          LET d == DeliveredIn(o, k)
          IN  /\ Len(d) <= Len(batches[k].ids)
              /\ batches[k].done => Len(d) = Len(batches[k].ids)
              /\ \A i \in 1..Len(d) :
                    /\ d[i].id = batches[k].ids[i]
                    /\ d[i].handler = HandlerOfKind(captured[d[i].id].type)

\* create then delete of the file in one window, both delivered to A and B
C3_Witness ==
    \E k \in 1..Len(batches) :
       /\ batches[k].done
       /\ batches[k].stable = {"A", "B"}
       /\ Len(batches[k].ids) = 2
       /\ captured[batches[k].ids[1]].type = "create"
       /\ captured[batches[k].ids[2]].type = "delete"
       /\ \A o \in {"A", "B"} :
             /\ Len(DeliveredIn(o, k)) = 2
             /\ DeliveredIn(o, k)[1].handler = "handleFileCreate"
             /\ DeliveredIn(o, k)[2].handler = "handleFileDelete"

(***************************************************************************)
(* C4  Isolation: when the handler of view A threw on change E, the flush  *)
(* still runs to its end; every other view registered throughout it gets   *)
(* E and every later change of the batch, and A, if it stays registered,   *)
(* gets the later changes.                                                 *)
(***************************************************************************)
\* the changes flush k handed to view o, as a set of change ids
GotIn(o, k) == {DeliveredIn(o, k)[i].id : i \in 1..Len(DeliveredIn(o, k))}

C4_Isolation ==
    \A k \in 1..Len(batches) : \A th \in batches[k].threw :
       /\ ~batches[k].done => pc = "handler" /\ k = Len(batches)
       /\ batches[k].done =>
             \A o \in batches[k].stable :
                \A id \in SeqToSet(batches[k].ids) :
                   (id > th[2] \/ (id = th[2] /\ o # th[1])) => id \in GotIn(o, k)

\* A threw on the first of two changes; the flush is over, B got both and A
\* got the second one too
C4_Witness ==
    \E k \in 1..Len(batches) :
       /\ batches[k].done
       /\ batches[k].stable = {"A", "B"}
       /\ Len(batches[k].ids) = 2
       /\ batches[k].threw = {<<"A", batches[k].ids[1]>>}
       /\ GotIn("B", k) = SeqToSet(batches[k].ids)
       /\ batches[k].ids[2] \in GotIn("A", k)

(***************************************************************************)
(* C5  After unregisterView(o) has returned, no handler of o is invoked    *)
(* until o is registered again: every handler invocation is on a view      *)
(* that is registered at that moment, also in the middle of a flush.       *)
(***************************************************************************)
Invocation == delivered' # delivered

C5_NoneAfterUnregister ==
    [][Invocation => cur' \in registered]_vars

\* B was unregistered by A's handler during a flush of two changes; the flush
\* is over and B got neither of them
C5_Witness ==
    \E k \in 1..Len(batches) :
       /\ batches[k].done
       /\ batches[k].start = {"A", "B"}
       /\ batches[k].stable = {"A"}
       /\ Len(batches[k].ids) = 2
       /\ CompleteFor("A", k)
       /\ DeliveredIn("B", k) = << >>

(***************************************************************************)
(* C6  No replay: a handler is invoked only for batches whose flush        *)
(* started after the view registered (registerView itself invokes none,    *)
(* and a view registered during a flush gets nothing of that batch).       *)
(***************************************************************************)
C6_OnlyFutureBatches ==
    [][Invocation => regAt[cur'] < Len(batches')]_vars

(***************************************************************************)
(* C7  Registry misuse is a no-op: the registry never holds a view twice;  *)
(* registering a registered view leaves the registry, the running          *)
(* iteration and the deliveries as they are; unregistering a view that is  *)
(* not registered leaves the registration of every view and the            *)
(* deliveries as they are.                                                 *)
(***************************************************************************)
NoDuplicate(vs) == \A i, j \in 1..Len(vs) : vs[i] = vs[j] => i = j

C7_MisuseIsNoOp ==
    /\ [](NoDuplicate(views) /\ SeqToSet(views) = registered)
    /\ [][\A o \in Observers :
            /\ (RegisterView(o) /\ o \in registered) =>
                  /\ views' = views
                  /\ UNCHANGED <<flushVars, delivered, batches, pendingChanges>>
            /\ (UnregisterView(o) /\ o \notin registered) =>
                  /\ views' = thisViews
                  /\ UNCHANGED <<flushVars, delivered, batches>>]_vars

\* after a misuse call both views are registered and got a whole batch once
C7_Witness ==
    /\ misuse > 0
    /\ views = <<"A", "B">>
    /\ \E k \in 1..Len(batches) :
          /\ batches[k].done
          /\ CompleteFor("A", k) /\ CompleteFor("B", k)
          /\ Len(batches[k].ids) > 0

(***************************************************************************)
(* C8  Teardown: while no instance exists (after cleanup()) no timer is    *)
(* armed, the buffer and the registry are empty and the vault holds no     *)
(* listener; a change dropped by destroy() is never delivered.             *)
(***************************************************************************)
C8_Teardown ==
    /\ instance = 0 =>
          /\ timers = {}
          /\ debounceTimer = 0
          /\ pendingChanges = << >>
          /\ views = << >>
          /\ eventRefs = 0
          /\ subs = {}
    /\ \A o \in Observers : \A i \in 1..Len(delivered[o]) :
          delivered[o][i].id \notin discarded

\* cleanup() dropped a pending change and a full window has passed since
C8_Witness ==
    /\ discarded # {}
    /\ instance = 0
    /\ clock = DEBOUNCE_DELAY
    /\ \A o \in Observers : delivered[o] = << >>

(***************************************************************************)
(* C9  Singleton lifecycle: the vault holds the listeners of at most one   *)
(* object, the one the static instance names; only cleanup() changes a     *)
(* non-null instance (to null), so getInstance() keeps returning the same  *)
(* object; an instance made when none existed is a new object with an      *)
(* empty buffer and a registry holding at most the view just registered.   *)
(***************************************************************************)
C9_Singleton ==
    /\ [](/\ Cardinality(subs) <= 1
          /\ subs = (IF instance = 0 THEN {} ELSE {instance})
          /\ instance \in {0, created})
    /\ [][/\ (instance # 0 /\ instance' # instance) => (instance' = 0 /\ calls' = calls + 1)
          /\ (GetInstance /\ instance # 0) => UNCHANGED <<instance, views, pendingChanges>>
          /\ (instance = 0 /\ instance' # 0) =>
                /\ instance' = created + 1
                /\ pendingChanges' = << >>
                /\ debounceTimer' = 0
                /\ Len(views') <= 1
                /\ GetInstance => views' = << >>]_vars

\* a second object exists after a cleanup, with nothing registered or buffered
C9_Witness ==
    /\ created = 2
    /\ instance = 2
    /\ views = << >>
    /\ pendingChanges = << >>

(***************************************************************************)
(* C10  Affected-folder completeness: the affectedFolders of every         *)
(* captured change hold the root identifier ''; when the entity had a      *)
(* parent link at capture they also hold the path of the parent and of     *)
(* every folder above the parent below the root.                           *)
(***************************************************************************)
\* folder g is folder d or lies above it, read off the two paths
IsPrefix(p, q) == Len(p) <= Len(q) /\ SubSeq(q, 1, Len(p)) = p

AtOrAbove(g, d) == g = d \/ IsPrefix(g \o <<"/">>, d)

InFlight == SeqToSet(pendingChanges) \cup SeqToSet(changes)

C10_AffectedFoldersComplete ==
    \A c \in InFlight :
       LET af == SeqToSet(c.affectedFolders)
       IN  /\ EmptyStr \in af
           /\ c.parent # NoPath =>
                 /\ c.parent \in af
                 /\ \A g \in Folders \ {RootPath} : AtOrAbove(g, c.parent) => g \in af

\* a file created in a/b: the change holds a/b, a and ''
C10_Witness ==
    \E c \in InFlight :
       /\ c.type = "create"
       /\ c.parent = PathAB
       /\ {PathAB, PathA, EmptyStr} \subseteq SeqToSet(c.affectedFolders)

(***************************************************************************)
(* C11  Previous parent chain: the affectedFolders of a rename hold the    *)
(* folder the entity was in before (the parent of oldPath) and every       *)
(* folder above that one below the root.                                   *)
(***************************************************************************)
\* folder g lies on the path p of an entity: g is its parent or above it
OnPathTo(g, p) == IsPrefix(g \o <<"/">>, p)

C11_PreviousParentChain ==
    \A c \in InFlight :
       (c.type = "rename" /\ c.oldPath # NoPath) =>
          \A g \in Folders \ {RootPath} :
             OnPathTo(g, c.oldPath) => g \in SeqToSet(c.affectedFolders)

(***************************************************************************)
(* C21  Idle or Buffering: whenever no flush is dispatching, the pending   *)
(* buffer is non-empty exactly when the debounce timer field is set, and   *)
(* the field is set exactly when the host holds that timer (armed); this   *)
(* holds after a flush during which changes were captured and after        *)
(* cleanup() as well.                                                      *)
(***************************************************************************)
Armed == \E t \in timers : t.id = debounceTimer /\ t.owner = created

C21_IdleOrBuffering ==
    pc = "idle" =>
       /\ (pendingChanges # << >>) <=> (debounceTimer # 0)
       /\ (debounceTimer # 0) <=> Armed

\* a flush has ended and a change captured while it was dispatching is
\* pending with the timer armed
C21_Witness ==
    /\ pc = "idle"
    /\ pendingChanges # << >>
    /\ captured[pendingChanges[1].id].during > 0
    /\ batches[captured[pendingChanges[1].id].during].done
    /\ Armed

(***************************************************************************)
(* C22  Computed at capture: the affectedFolders a handler is handed with  *)
(* a change are the ones calculateAffectedFolders gives for the parent     *)
(* link the entity had when the change was captured, also when the entity  *)
(* was renamed or moved again before the flush.                            *)
(***************************************************************************)
\* the change the running handler was called with
Dispatched == changes[ci]

C22_ComputedAtCapture ==
    pc = "handler" =>
       Dispatched.affectedFolders =
          calculateAffectedFolders(Dispatched.parent, Dispatched.oldPath)

\* a handler gets a change of a file that was moved after the capture: the
\* folders it is handed are not the ones the file's parent link gives now
C22_Witness ==
    /\ pc = "handler"
    /\ \E j \in 1..Len(changes) : j > ci /\ changes[j].type = "rename"
                                   /\ changes[j].file = Dispatched.file
    /\ fileParent[Dispatched.file] # Dispatched.parent
    /\ SeqToSet(Dispatched.affectedFolders) #
          SeqToSet(calculateAffectedFolders(fileParent[Dispatched.file], Dispatched.oldPath))

(***************************************************************************)
(* C23  Capture without a parent link: the deletion of an entity that has  *)
(* lost its parent link is appended to the pending buffer like any other   *)
(* change, with affectedFolders = [''], and a timer is armed for it; a     *)
(* change without parent link that is pending or being dispatched has      *)
(* exactly these folders, and the flush that takes it hands it to the      *)
(* registered view.                                                        *)
(***************************************************************************)
RootOnly == <<EmptyStr>>

C23_Enqueued ==
    \A f \in Files :
       VaultDelete(f, TRUE) =>
          /\ Len(pendingChanges') = Len(pendingChanges) + 1
          /\ SubSeq(pendingChanges', 1, Len(pendingChanges)) = pendingChanges
          /\ pendingChanges'[Len(pendingChanges')].type = "delete"
          /\ pendingChanges'[Len(pendingChanges')].file = f
          /\ pendingChanges'[Len(pendingChanges')].affectedFolders = RootOnly
          /\ Armed'

C23_Delivered ==
    /\ \A c \in InFlight : c.parent = NoPath => c.affectedFolders = RootOnly
    /\ \A id \in 1..Len(captured) : id \in SeqToSet(PendingIds) \/ BatchOf(id) # 0
    /\ \A k \in 1..Len(batches) : batches[k].done => CompleteFor("A", k)
    /\ pc = "handler" =>
          /\ delivered[cur][Len(delivered[cur])].id = Dispatched.id
          /\ delivered[cur][Len(delivered[cur])].handler = HandlerOfKind(Dispatched.type)

C23_DetachedStillDelivered == []C23_Delivered /\ [][C23_Enqueued]_vars

\* the file was deleted without parent link and the view's delete handler
\* was called with the root-only folders; the flush is over
C23_Witness ==
    \E f \in Files :
       /\ fileState[f] = "gone"
       /\ fileParent[f] = NoPath
       /\ pc = "idle"
       /\ pendingChanges = << >>
       /\ delivered["A"] # << >>
       /\ delivered["A"][Len(delivered["A"])].handler = "handleFileDelete"
       /\ batches[Len(batches)].done

(***************************************************************************)
(* MyPlugin's suggestion caches  (main.ts:157-160, 271-275, 347-385)       *)
(* A cached list is represented by the time it was computed from the tree. *)
(***************************************************************************)
\* number of steps of Date.now() in a behaviour of SpecCache
MaxCacheTicks == 8

\* main.ts:371 and 383: now + 1000
CACHE_TTL == 1000
\* granularity of Date.now() in the model, in ms
CacheStep == CACHE_TTL \div 4

CacheFrame ==
    /\ UNCHANGED <<hostVars, objVars, flushVars, histVars, reconVars, nav>>

CacheTick ==
    /\ dateNow < MaxCacheTicks * CacheStep
    /\ dateNow' = dateNow + CacheStep
    /\ UNCHANGED <<folderCache, fileCache, cacheValidUntil, retAge>>
    /\ CacheFrame

\* getCachedFolders (main.ts:348-373)
getCachedFolders ==
    /\ IF folderCache # << >> /\ dateNow < cacheValidUntil
       THEN /\ retAge' = dateNow - folderCache[1]
            /\ UNCHANGED <<folderCache, cacheValidUntil>>
       ELSE /\ folderCache' = <<dateNow>>
            /\ cacheValidUntil' = dateNow + CACHE_TTL
            /\ retAge' = 0
    /\ UNCHANGED <<dateNow, fileCache>>
    /\ CacheFrame

\* getCachedFiles (main.ts:375-385)
getCachedFiles ==
    /\ IF fileCache # << >> /\ dateNow < cacheValidUntil
       THEN /\ retAge' = dateNow - fileCache[1]
            /\ UNCHANGED <<fileCache, cacheValidUntil>>
       ELSE /\ fileCache' = <<dateNow>>
            /\ cacheValidUntil' = dateNow + CACHE_TTL
            /\ retAge' = 0
    /\ UNCHANGED <<dateNow, folderCache>>
    /\ CacheFrame

\* invalidateCache (main.ts:271-275), called by saveSettings
invalidateCache ==
    /\ folderCache' = << >>
    /\ fileCache' = << >>
    /\ cacheValidUntil' = 0
    /\ UNCHANGED <<dateNow, retAge>>
    /\ CacheFrame

NextCache ==
    \/ CacheTick
    \/ getCachedFolders
    \/ getCachedFiles
    \/ invalidateCache

SpecCache == Init /\ [][NextCache]_vars

(***************************************************************************)
(* C19  Cache TTL: the list a getCachedFolders() or getCachedFiles() call  *)
(* returns was computed from the tree at most CACHE_TTL ms before the      *)
(* call.                                                                   *)
(***************************************************************************)
C19_CacheTTL == retAge <= CACHE_TTL

(***************************************************************************)
(* C20  Flush is non-reentrant: a change captured while flush k is         *)
(* dispatching is not part of batch k; while it is pending a timer is      *)
(* armed for it; it is taken by at most one flush, a later one, which      *)
(* starts only when flush k has returned, and that flush hands it exactly  *)
(* once to every view registered throughout it.                            *)
(***************************************************************************)
\* the flushes that took change id
BatchesOf(id) == {k \in 1..Len(batches) : id \in SeqToSet(batches[k].ids)}

\* how often view o was handed change id
TimesGot(o, id) == Cardinality({i \in 1..Len(delivered[o]) : delivered[o][i].id = id})

C20_NonReentrant ==
    /\ \A k \in 1..Len(batches) : ~batches[k].done => (k = Len(batches) /\ pc = "handler")
    /\ \A id \in 1..Len(captured) :
          captured[id].during > 0 =>
             /\ id \in SeqToSet(PendingIds) =>
                   /\ debounceTimer # 0
                   /\ \E t \in timers : t.id = debounceTimer /\ t.delay = DEBOUNCE_DELAY
             /\ Cardinality(BatchesOf(id)) <= 1
             /\ \A j \in BatchesOf(id) :
                   /\ j > captured[id].during
                   /\ batches[captured[id].during].done
                   /\ \A o \in batches[j].stable :
                         /\ TimesGot(o, id) <= 1
                         /\ batches[j].done => TimesGot(o, id) = 1

\* a change raised from inside a handler of flush 1 was delivered to A and B
\* by flush 2
C20_Witness ==
    \E id \in 1..Len(captured) :
       /\ captured[id].during = 1
       /\ BatchesOf(id) = {2}
       /\ batches[2].done
       /\ batches[2].stable = {"A", "B"}
       /\ TimesGot("A", id) = 1 /\ TimesGot("B", id) = 1

(***************************************************************************)
(* The file list: class FolderContainerManager                             *)
(* (folder-container-manager.ts:1124-2790) and what it reads of the host.  *)
(***************************************************************************)
\* the latest instant of time of the model; there are two instants per day
MaxTime == 5

\* new Date(t).getFullYear/getMonth/getDate: the calendar day of instant t,
\* as a day number; day 0 is 30 Dec 2023
DayOf(t) == t \div 2

DateOfDay(day) ==
    IF day <= 1
    THEN [date |-> 30 + day, month |-> <<"D", "e", "c">>, year |-> <<"2", "0", "2", "3">>]
    ELSE [date |-> day - 1,  month |-> <<"J", "a", "n">>, year |-> <<"2", "0", "2", "4">>]

\* a number below 100 in a template literal
Digit(n) == <<"0", "1", "2", "3", "4", "5", "6", "7", "8", "9">>[n + 1]
NumStr(n) == IF n < 10 THEN <<Digit(n)>> ELSE <<Digit(n \div 10), Digit(n % 10)>>

GPinned    == <<"P", "i", "n", "n", "e", "d">>
GToday     == <<"T", "o", "d", "a", "y">>
GYesterday == <<"Y", "e", "s", "t", "e", "r", "d", "a", "y">>

\* formatDateGroup (folder-container-manager.ts:1530-1544)
formatDateGroup(t) ==
    LET d == DateOfDay(DayOf(t))
        currentYear == DateOfDay(DayOf(now)).year
    IN  IF d.year = currentYear
        THEN NumStr(d.date) \o <<" ">> \o d.month
        ELSE NumStr(d.date) \o <<" ">> \o d.month \o <<" ">> \o d.year

\* MyPlugin.isPathPinned(path, 'file') / isPathHidden(path, 'file')  (main.ts:278-284)
isPathPinned(path) == path \in pinnedFilesSet
isFileHidden(path) == path \in hiddenFilesSet

\* the pinned set is not looked at
getTargetGroup_NoPinned(f) ==
    LET fileDate     == tree[f].ctime
        today        == DayOf(now)
        yesterday    == today - 1
        fileDateOnly == DayOf(fileDate)
    IN  IF fileDateOnly = today THEN GToday
        ELSE IF fileDateOnly = yesterday THEN GYesterday
        ELSE formatDateGroup(fileDate)

\* getTargetGroup (folder-container-manager.ts:2288-2311)
getTargetGroup(f) ==
    IF isPathPinned(tree[f].path) THEN GPinned
    ELSE LET fileDate     == tree[f].ctime
             today        == DayOf(now)
             yesterday    == today - 1
             fileDateOnly == DayOf(fileDate)
         IN  IF fileDateOnly = today THEN GToday
             ELSE IF fileDateOnly = yesterday THEN GYesterday
             ELSE formatDateGroup(fileDate)

\* the files of the vault in the order Vault.recurseChildren / children visits them
VisitOrder == <<"f1", "f2", "f3", "f4">>
SetToSeq(S) == SelectSeq(VisitOrder, LAMBDA f : f \in S)

LiveFiles == {f \in DOMAIN tree : tree[f].state = "live"}

\* Array.prototype.sort((a, b) => b.stat.ctime - a.stat.ctime): stable, newest first
RECURSIVE InsertByCtime(_, _)
InsertByCtime(sorted, f) ==
    IF sorted = << >> THEN <<f>>
    ELSE IF tree[Head(sorted)].ctime >= tree[f].ctime
         THEN <<Head(sorted)>> \o InsertByCtime(Tail(sorted), f)
         ELSE <<f>> \o sorted

\* the result is left in the order the files were visited
SortByCtime_Unsorted(files) == files

RECURSIVE SortByCtime(_)
SortByCtime(files) ==
    IF files = << >> THEN << >>
    ELSE InsertByCtime(SortByCtime(SubSeq(files, 1, Len(files) - 1)), files[Len(files)])

startsWith(s, p) == Len(p) <= Len(s) /\ SubSeq(s, 1, Len(p)) = p

\* the files below folder (Vault.recurseChildren) / directly in folder (children)
FilesBelow(folder) ==
    {f \in LiveFiles : startsWith(tree[f].path, folder \o <<"/">>)}
FilesIn(folder) == {f \in LiveFiles : tree[f].parent = folder}

\* getFiles (folder-container-manager.ts:1458-1491)
getFiles(r) ==
    IF r.currentFolder = NoPath THEN << >>
    ELSE LET files == IF r.isAllNotesMode THEN SetToSeq(LiveFiles)
                      ELSE IF isRoot(r.currentFolder) THEN SetToSeq(FilesIn(r.currentFolder))
                      ELSE SetToSeq(FilesBelow(r.currentFolder))
             visibleFiles == SelectSeq(files, LAMBDA f : ~isFileHidden(tree[f].path))
         IN  SortByCtime(visibleFiles)

\* a Map / a Record in insertion order: a sequence of [k, v]
MapHas(mp, key) == \E i \in 1..Len(mp) : mp[i].k = key
MapGet(mp, key) == mp[CHOOSE i \in 1..Len(mp) : mp[i].k = key].v
MapSet(mp, key, val) ==
    IF MapHas(mp, key)
    THEN [i \in 1..Len(mp) |-> IF mp[i].k = key THEN [k |-> key, v |-> val] ELSE mp[i]]
    ELSE Append(mp, [k |-> key, v |-> val])
MapDelete(mp, key) == SelectSeq(mp, LAMBDA e : e.k # key)
MapKeys(mp) == {mp[i].k : i \in 1..Len(mp)}

\* groupFilesByDate (folder-container-manager.ts:1493-1528): the groups
\* record, in the order Object.entries lists it
\* lines 1505-1524: the key of the group file f is pushed to
GroupKey(f, today, yesterday) ==
    IF isPathPinned(tree[f].path) THEN GPinned
    ELSE LET fileDateOnly == DayOf(tree[f].ctime)
         IN  IF fileDateOnly = today THEN GToday
             ELSE IF fileDateOnly = yesterday THEN GYesterday
             ELSE formatDateGroup(tree[f].ctime)

RECURSIVE GroupInto(_, _)
GroupInto(groups, files) ==
    IF files = << >> THEN groups
    ELSE LET f   == Head(files)
             key == GroupKey(f, DayOf(now), DayOf(now) - 1)
             old == IF MapHas(groups, key) THEN MapGet(groups, key) ELSE << >>
         IN  GroupInto(MapSet(groups, key, Append(old, f)), Tail(files))

groupFilesByDate(files) ==
    GroupInto(<<[k |-> GPinned, v |-> << >>], [k |-> GToday, v |-> << >>],
                [k |-> GYesterday, v |-> << >>]>>, files)

(***************************************************************************)
(* The list's state is one record (variable fcm):                          *)
(*   container, currentFolder, isAllNotesMode   the fields of these names  *)
(*   fileElements   Map path -> element (the .file-item of the file)       *)
(*   groupElements  Map group name -> group element                        *)
(*   content        the group elements in .folder-container-content        *)
(*   kids           group element -> the children of its groupContainer:   *)
(*                  file items and dividers (Divider), in document order   *)
(*   temp           the file items that sit in the temporary container     *)
(*                  they were rendered into                                *)
(*   nextEl         the next file item to be created                       *)
(*   timeouts       the setTimeout(..., 0) callbacks not run yet           *)
(*   awaiting       the addFileItem calls suspended in await               *)
(*   rendering      the renderFileList call of refreshFileList suspended   *)
(*                  in await, if any: the groups still to render, the      *)
(*                  group element and the files of the group being         *)
(*                  rendered, the index of the file whose item is loading  *)
(***************************************************************************)
Divider == 0

EmptyList(folder, all) ==
    [ container      |-> TRUE,
      currentFolder  |-> folder,
      isAllNotesMode |-> all,
      fileElements   |-> << >>,
      groupElements  |-> << >>,
      content        |-> << >>,
      kids           |-> << >>,
      temp           |-> {},
      nextEl         |-> 1,
      timeouts       |-> << >>,
      awaiting       |-> {},
      rendering      |-> << >> ]

InsertAt(seq, pos, x) == SubSeq(seq, 1, pos - 1) \o <<x>> \o SubSeq(seq, pos, Len(seq))

\* renderFileItem (lines 1577-1648) up to its await, into group element g
renderFileItemIn(r, g, f) ==
    [r EXCEPT !.nextEl = @ + 1,
              !.fileElements = MapSet(@, tree[f].path, r.nextEl),
              !.kids[g] = Append(@, r.nextEl)]

\* lines 1567-1574: the items of a group with a divider after each but the last
RECURSIVE RenderItems(_, _, _, _)
RenderItems(r, g, files, i) ==
    IF i > Len(files) THEN r
    ELSE LET r1 == renderFileItemIn(r, g, files[i])
             r2 == IF i < Len(files)
                   THEN [r1 EXCEPT !.kids[g] = Append(@, Divider)]
                   ELSE r1
         IN  RenderItems(r2, g, files, i + 1)

\* renderFileGroup (lines 1546-1575); the group element becomes child number
\* pos of the content (pos = 0: it stays in a temporary container)
renderFileGroup(r, groupName, files, pos) ==
    LET g  == Len(r.kids) + 1
        r1 == [r EXCEPT !.kids = Append(@, << >>),
                        !.content = IF pos = 0 THEN @ ELSE InsertAt(@, pos, g),
                        !.groupElements = MapSet(@, groupName, g)]
    IN  RenderItems(r1, g, files, 1)

\* lines 1451-1455
RECURSIVE RenderGroups(_, _)
RenderGroups(r, groups) ==
    IF groups = << >> THEN r
    ELSE IF Len(Head(groups).v) = 0 THEN RenderGroups(r, Tail(groups))
    ELSE RenderGroups(renderFileGroup(r, Head(groups).k, Head(groups).v, Len(r.content) + 1),
                      Tail(groups))

\* renderFileList (lines 1441-1456), run to completion
renderFileList(r) ==
    IF r.currentFolder = NoPath THEN r
    ELSE RenderGroups(r, groupFilesByDate(getFiles(r)))

(***************************************************************************)
(* Full render of a folder: four files in folder a, with every             *)
(* combination of creation times, some of them pinned or hidden, rendered  *)
(* at every instant.                                                       *)
(***************************************************************************)
GFiles == {"f1", "f2", "f3", "f4"}
GName(f) == CASE f = "f1" -> <<"c">> [] f = "f2" -> <<"d">>
              [] f = "f3" -> <<"e">> [] f = "f4" -> <<"g">>

InitGroup ==
    /\ \E ct \in [GFiles -> 0..MaxTime] :
          tree = [f \in GFiles |->
                    [state |-> "live", path |-> FilePath(PathA, GName(f)),
                     parent |-> PathA, ctime |-> ct[f]]]
    /\ pinnedFilesSet \in SUBSET {FilePath(PathA, GName("f1")), FilePath(PathA, GName("f3"))}
    /\ hiddenFilesSet \in SUBSET {FilePath(PathA, GName("f4"))}
    /\ now \in 0..MaxTime
    /\ fcm = EmptyList(PathA, FALSE)
    /\ inbox = << >> /\ batch = << >> /\ rops = 0 /\ last = << >>
    /\ InitHost /\ InitObserver /\ InitNoCache /\ InitNoNav
    /\ instance = 0 /\ fileState = [f \in Files |-> "new"]

\* createContainer: await this.renderFileList(content)  (line 1406)
RenderFileList ==
    /\ fcm.content = << >>
    /\ fcm' = renderFileList(fcm)
    /\ UNCHANGED <<tree, pinnedFilesSet, hiddenFilesSet, now, inbox, batch, rops, last>>
    /\ UNCHANGED <<hostVars, objVars, flushVars, histVars, cacheVars, nav>>

NextGroup == RenderFileList

SpecGroup == InitGroup /\ [][NextGroup]_vars

(***************************************************************************)
(* Vocabulary of the properties of the file list                           *)
(***************************************************************************)
\* the file items of group element g, in document order
ItemsOf(r, g) == SelectSeq(r.kids[g], LAMBDA n : n # Divider)

\* the name under which group element g is registered
NameOfGroup(r, g) ==
    r.groupElements[CHOOSE i \in 1..Len(r.groupElements) : r.groupElements[i].v = g].k

\* the path under which file item e is tracked, and the live file at a path
KeyOfItem(r, e) ==
    r.fileElements[CHOOSE i \in 1..Len(r.fileElements) : r.fileElements[i].v = e].k
FileAt(path) == CHOOSE f \in LiveFiles : tree[f].path = path

\* the displayed group elements that show the file item tracked for path
GroupsShowing(r, path) ==
    {r.content[i] : i \in {j \in 1..Len(r.content) :
                              MapHas(r.fileElements, path)
                              /\ MapGet(r.fileElements, path) \in SeqToSet(r.kids[r.content[j]])}}

FixedRank(name) ==
    CASE name = GPinned    -> 0
      [] name = GToday     -> 1
      [] name = GYesterday -> 2
      [] OTHER             -> 3

\* the calendar day of the files a displayed group shows
DayOfGroup(r, g) == DayOf(tree[FileAt(KeyOfItem(r, ItemsOf(r, g)[1]))].ctime)

VisibleInScope(r) ==
    {f \in FilesBelow(r.currentFolder) : ~isFileHidden(tree[f].path)}

Rendered == fcm.content # << >>

(***************************************************************************)
(* C16  Grouping order on a full render: the files shown are the visible   *)
(* files of the folder; the groups come in the order Pinned, Today,        *)
(* Yesterday, then the date groups from the newest day to the oldest; no   *)
(* group is empty; inside each group the files are newest first.           *)
(***************************************************************************)
C16_GroupingOrder ==
    Rendered =>
       /\ MapKeys(fcm.fileElements) = {tree[f].path : f \in VisibleInScope(fcm)}
       /\ \A f \in VisibleInScope(fcm) : Cardinality(GroupsShowing(fcm, tree[f].path)) = 1
       /\ \A i \in 1..Len(fcm.content) :
             LET g == fcm.content[i]
                 items == ItemsOf(fcm, g)
             IN  /\ Len(items) > 0
                 /\ \A a, b \in 1..Len(items) :
                       a < b => tree[FileAt(KeyOfItem(fcm, items[a]))].ctime
                                  >= tree[FileAt(KeyOfItem(fcm, items[b]))].ctime
       /\ \A i, j \in 1..Len(fcm.content) :
             i < j =>
                LET gi == fcm.content[i]
                    gj == fcm.content[j]
                    ri == FixedRank(NameOfGroup(fcm, gi))
                    rj == FixedRank(NameOfGroup(fcm, gj))
                IN  /\ ri <= rj
                    /\ ri < 3 => ri < rj
                    /\ (ri = 3 /\ rj = 3) => DayOfGroup(fcm, gi) > DayOfGroup(fcm, gj)

\* a pinned file, one of today, one of yesterday and an older one: four
\* groups in this order
C16_Witness ==
    /\ Rendered
    /\ Len(fcm.content) = 4
    /\ NameOfGroup(fcm, fcm.content[1]) = GPinned
    /\ NameOfGroup(fcm, fcm.content[2]) = GToday
    /\ NameOfGroup(fcm, fcm.content[3]) = GYesterday
    /\ FixedRank(NameOfGroup(fcm, fcm.content[4])) = 3
    /\ DayOfGroup(fcm, fcm.content[4]) < DayOf(now) - 1

(***************************************************************************)
(* C17  Pinned priority: the full render shows every file in the group     *)
(* getTargetGroup computes for it, and for a pinned file both are Pinned   *)
(* whatever its creation time.                                             *)
(***************************************************************************)
C17_PinnedPriority ==
    Rendered =>
       \A f \in VisibleInScope(fcm) :
          \A g \in GroupsShowing(fcm, tree[f].path) :
             /\ NameOfGroup(fcm, g) = getTargetGroup(f)
             /\ isPathPinned(tree[f].path) =>
                   (NameOfGroup(fcm, g) = GPinned /\ getTargetGroup(f) = GPinned)

\* a pinned file created before yesterday is shown in Pinned, next to a
\* pinned file of today
C17_Witness ==
    /\ Rendered
    /\ \E f, h \in VisibleInScope(fcm) :
          /\ isPathPinned(tree[f].path) /\ isPathPinned(tree[h].path)
          /\ DayOf(tree[f].ctime) < DayOf(now) - 1
          /\ DayOf(tree[h].ctime) = DayOf(now)
          /\ \A g \in GroupsShowing(fcm, tree[f].path) : NameOfGroup(fcm, g) = GPinned
          /\ GroupsShowing(fcm, tree[f].path) = GroupsShowing(fcm, tree[h].path)
          /\ getTargetGroup(f) = GPinned

(***************************************************************************)
(* Incremental updates of the file list                                    *)
(* (folder-container-manager.ts:1975-2027 and 2081-2584)                   *)
(***************************************************************************)
\* String.prototype.localeCompare on the characters group names are made
\* of: space before digits before letters; letters by the alphabet, lower
\* case before upper case when nothing else differs
Digits  == <<"0", "1", "2", "3", "4", "5", "6", "7", "8", "9">>
Lower   == <<"a", "b", "c", "d", "e", "f", "g", "h", "i", "j", "k", "l", "m",
             "n", "o", "p", "q", "r", "s", "t", "u", "v", "w", "x", "y", "z">>
Upper   == <<"A", "B", "C", "D", "E", "F", "G", "H", "I", "J", "K", "L", "M",
             "N", "O", "P", "Q", "R", "S", "T", "U", "V", "W", "X", "Y", "Z">>
IndexIn(seq, ch) == IF \E i \in 1..Len(seq) : seq[i] = ch
                    THEN CHOOSE i \in 1..Len(seq) : seq[i] = ch
                    ELSE 0
Primary(ch) ==
    IF ch = " " THEN 0
    ELSE IF IndexIn(Digits, ch) > 0 THEN IndexIn(Digits, ch)
    ELSE IF IndexIn(Lower, ch) > 0 THEN 10 + IndexIn(Lower, ch)
    ELSE 10 + IndexIn(Upper, ch)
IsUpper(ch) == IndexIn(Upper, ch) > 0

RECURSIVE ComparePrimary(_, _)
ComparePrimary(a, b) ==
    IF a = << >> /\ b = << >> THEN 0
    ELSE IF a = << >> THEN -1
    ELSE IF b = << >> THEN 1
    ELSE IF Primary(Head(a)) < Primary(Head(b)) THEN -1
    ELSE IF Primary(Head(a)) > Primary(Head(b)) THEN 1
    ELSE ComparePrimary(Tail(a), Tail(b))

RECURSIVE CompareCase(_, _)
CompareCase(a, b) ==
    IF a = << >> \/ b = << >> THEN 0
    ELSE IF ~IsUpper(Head(a)) /\ IsUpper(Head(b)) THEN -1
    ELSE IF IsUpper(Head(a)) /\ ~IsUpper(Head(b)) THEN 1
    ELSE CompareCase(Tail(a), Tail(b))

localeCompare(a, b) ==
    IF ComparePrimary(a, b) # 0 THEN ComparePrimary(a, b) ELSE CompareCase(a, b)

\* compareGroupOrder (lines 2331-2350)
compareGroupOrder(groupA, groupB) ==
    LET order  == <<GToday, GYesterday>>
        indexA == IndexIn(order, groupA)
        indexB == IndexIn(order, groupB)
    IN  IF indexA # 0 /\ indexB # 0 THEN indexA - indexB
        ELSE IF indexA # 0 THEN -1
        ELSE IF indexB # 0 THEN 1
        ELSE localeCompare(groupB, groupA)

\* isFileInCurrentFolder (lines 1975-2012); a deleted file has no parent
isFileInCurrentFolder(r, f) ==
    IF r.currentFolder = NoPath THEN FALSE
    ELSE IF r.isAllNotesMode THEN TRUE
    ELSE IF isRoot(r.currentFolder) THEN TRUE
    ELSE \/ startsWith(tree[f].path, r.currentFolder \o <<"/">>)
         \/ /\ tree[f].parent # NoPath
            /\ AtOrAbove(r.currentFolder, tree[f].parent)

\* the '/' is missing: any path with the folder's path as a string prefix
isPathInCurrentFolder_Prefix(r, path) ==
    IF r.currentFolder = NoPath THEN FALSE
    ELSE IF r.isAllNotesMode THEN TRUE
    ELSE IF isRoot(r.currentFolder) THEN TRUE
    ELSE startsWith(path, r.currentFolder) \/ path = r.currentFolder

\* isPathInCurrentFolder (lines 2014-2027)
isPathInCurrentFolder(r, path) ==
    IF r.currentFolder = NoPath THEN FALSE
    ELSE IF r.isAllNotesMode THEN TRUE
    ELSE IF isRoot(r.currentFolder) THEN TRUE
    ELSE startsWith(path, r.currentFolder \o <<"/">>) \/ path = r.currentFolder

\* the group element whose groupContainer holds node e (0: none), and the
\* position of e among its children
ParentOf(r, e) ==
    IF \E g \in 1..Len(r.kids) : e \in SeqToSet(r.kids[g])
    THEN CHOOSE g \in 1..Len(r.kids) : e \in SeqToSet(r.kids[g])
    ELSE 0
PosIn(r, g, e) == CHOOSE i \in 1..Len(r.kids[g]) : r.kids[g][i] = e

RemoveAt(seq, i) == SubSeq(seq, 1, i - 1) \o SubSeq(seq, i + 1, Len(seq))

\* removeEmptyGroup (lines 2276-2286)
removeEmptyGroup(r, groupName) ==
    IF ~MapHas(r.groupElements, groupName) THEN r
    ELSE LET g == MapGet(r.groupElements, groupName)
         IN  IF Len(ItemsOf(r, g)) = 0
             THEN [r EXCEPT !.content = SelectSeq(@, LAMBDA x : x # g),
                            !.groupElements = MapDelete(@, groupName)]
             ELSE r

\* removeFileItem (lines 2183-2227)
removeFileItem(r, f) ==
    IF ~MapHas(r.fileElements, tree[f].path) THEN r
    ELSE LET e  == MapGet(r.fileElements, tree[f].path)
             g  == ParentOf(r, e)
             r1 == IF g = 0
                   THEN [r EXCEPT !.temp = @ \ {e}]
                   ELSE LET ks == r.kids[g]
                            i  == PosIn(r, g, e)
                            \* the divider after the item, else the one before it
                            k1 == IF i < Len(ks) /\ ks[i + 1] = Divider
                                  THEN RemoveAt(ks, i + 1)
                                  ELSE IF i > 1 /\ ks[i - 1] = Divider
                                       THEN RemoveAt(ks, i - 1)
                                       ELSE ks
                        IN  [r EXCEPT !.kids[g] = SelectSeq(k1, LAMBDA n : n # e)]
             r2 == [r1 EXCEPT !.fileElements = MapDelete(@, tree[f].path)]
         IN  removeEmptyGroup(r2, getTargetGroup(f))

\* ensureGroupExists (lines 2242-2274)
ensureGroupExists(r, groupName) ==
    IF MapHas(r.groupElements, groupName) THEN r
    ELSE IF ~r.container THEN r
    ELSE LET before == SelectSeq(r.groupElements,
                                 LAMBDA en : compareGroupOrder(groupName, en.k) < 0)
             pos    == IF before = << >>
                       THEN Len(r.content) + 1
                       ELSE CHOOSE i \in 1..Len(r.content) : r.content[i] = before[1].v
         IN  renderFileGroup(r, groupName, << >>, pos)

\* getFilesInGroup (lines 2313-2329)
getFilesInGroup(r, groupName) ==
    IF ~MapHas(r.groupElements, groupName) THEN << >>
    ELSE LET g    == MapGet(r.groupElements, groupName)
             here == SelectSeq(r.fileElements,
                        LAMBDA en : /\ en.v \in SeqToSet(r.kids[g])
                                    /\ \E h \in LiveFiles : tree[h].path = en.k)
         IN  [i \in 1..Len(here) |-> FileAt(here[i].k)]

\* the depth of the call stack, in frames of addFileItem
MaxStack == 3

\* addFileItem, lines 2137-2142: while the group is missing, ensureGroupExists
\* and a recursive call; calls counts the calls of ensureGroupExists, thrown
\* tells that the recursion ended with the stack exhausted (RangeError)
RECURSIVE addFileItemEnter(_, _, _)
addFileItemEnter(r, groupName, depth) ==
    IF MapHas(r.groupElements, groupName)
    THEN [r |-> r, calls |-> 0, thrown |-> FALSE]
    ELSE IF depth >= MaxStack
    THEN [r |-> r, calls |-> 0, thrown |-> TRUE]
    ELSE LET en == addFileItemEnter(ensureGroupExists(r, groupName), groupName, depth + 1)
         IN  [en EXCEPT !.calls = @ + 1]

\* addFileItem (lines 2136-2181) up to the await of renderFileItem: the
\* group is made if missing, the position and the items present are
\* computed, the new item is created in a temporary container and entered
\* in fileElements (line 1625)
addFileItemStart(r, f, groupName, id) ==
    LET en == addFileItemEnter(r, groupName, 0)
        r1 == en.r
    IN  IF en.thrown THEN r1
        ELSE LET g     == MapGet(r1.groupElements, groupName)
                 files == SortByCtime(Append(getFilesInGroup(r1, groupName), f))
                 insertIndex   == IndexIn(files, f) - 1
                 existingItems == ItemsOf(r1, g)
                 el    == r1.nextEl
             IN  [r1 EXCEPT !.nextEl = @ + 1,
                            !.temp = @ \cup {el},
                            !.fileElements = MapSet(@, tree[f].path, el),
                            !.awaiting = @ \cup {[f |-> f, g |-> g, insertIndex |-> insertIndex,
                                                  existingItems |-> existingItems,
                                                  el |-> el, id |-> id]}]

\* addFileItem from line 2155 on, for the suspended call a. A null newItem
\* (the item was taken out of the temporary container meanwhile) and a
\* reference node that is no child of the group container any more make
\* insertBefore throw: nothing is inserted.
addFileItemResume(r, a) ==
    LET r0 == [r EXCEPT !.awaiting = @ \ {a}]
        ks == r.kids[a.g]
        n  == Len(a.existingItems)
        placed(newKids) == [r0 EXCEPT !.temp = @ \ {a.el}, !.kids[a.g] = newKids]
    IN  IF a.el \notin r.temp THEN r0
        ELSE IF a.insertIndex = 0
        THEN IF n = 0 THEN placed(Append(ks, a.el))
             ELSE IF a.existingItems[1] \notin SeqToSet(ks) THEN r0
             ELSE LET pos == PosIn(r, a.g, a.existingItems[1])
                  IN  placed(InsertAt(InsertAt(ks, pos, a.el), pos + 1, Divider))
        ELSE LET itemIndex == Min(a.insertIndex, n)
                 afterItem == IF itemIndex >= 1 THEN a.existingItems[itemIndex] ELSE 0
                 hasNext   == /\ afterItem # 0
                              /\ afterItem \in SeqToSet(ks)
                              /\ PosIn(r, a.g, afterItem) < Len(ks)
                 pos       == IF hasNext THEN PosIn(r, a.g, afterItem) + 1 ELSE Len(ks) + 1
                 withItem  == InsertAt(ks, pos, a.el)
             IN  IF n > 0 THEN placed(InsertAt(withItem, pos, Divider))
                 ELSE placed(withItem)

\* moveFileItem (lines 2229-2240) up to its await
moveFileItemStart(r, f, newGroupName, id) ==
    addFileItemStart(removeFileItem(r, f), f, newGroupName, id)

\* the name of the registered group whose container holds node e (lines
\* 2520-2525, 2560-2564); << >> when there is none
ContainingGroup(r, e) ==
    LET holds == SelectSeq(r.groupElements, LAMBDA en : e \in SeqToSet(r.kids[en.v]))
    IN  IF holds = << >> THEN << >> ELSE holds[1].k

\* filePath.split('/').pop()
RECURSIVE LastSegment(_)
LastSegment(path) ==
    IF \A i \in 1..Len(path) : path[i] # "/" THEN path
    ELSE LastSegment(Tail(path))

\* getTargetGroupFromPath (lines 2507-2554)
getTargetGroupFromPath(r, filePath) ==
    LET direct == IF MapHas(r.fileElements, filePath)
                  THEN ContainingGroup(r, MapGet(r.fileElements, filePath))
                  ELSE << >>
        byName == SelectSeq(r.fileElements,
                     LAMBDA en : /\ LastSegment(en.k) = LastSegment(filePath)
                                 /\ ContainingGroup(r, en.v) # << >>)
    IN  IF direct # << >> THEN direct
        ELSE IF byName # << >> THEN ContainingGroup(r, byName[1].v)
        ELSE GToday

\* updateElementMapKey (lines 2569-2584)
updateElementMapKey(r, oldPath, newPath) ==
    IF MapHas(r.fileElements, oldPath)
    THEN LET elements == MapGet(r.fileElements, oldPath)
         IN  [r EXCEPT !.fileElements = MapSet(MapDelete(@, oldPath), newPath, elements)]
    ELSE r

\* setTimeout(async () => { ... }, 0); id and had are history: the event
\* whose handler scheduled the callback and the item that handler re-keyed
\* (0: none)
setTimeout0(r, kind, f, groupName, id, had) ==
    [r EXCEPT !.timeouts = Append(@, [kind |-> kind, f |-> f, g |-> groupName, id |-> id,
                                      had |-> had])]

\* handleFileCreate (lines 2353-2366)
handleFileCreate(r, f, id) ==
    IF ~r.container \/ r.currentFolder = NoPath THEN r
    ELSE IF ~isFileInCurrentFolder(r, f) THEN r
    ELSE setTimeout0(r, "add", f, getTargetGroup(f), id, 0)

\* handleFileDelete (lines 2368-2398)
handleFileDelete(r, f, id) ==
    IF ~r.container \/ r.currentFolder = NoPath THEN r
    ELSE IF ~isFileInCurrentFolder(r, f) THEN r
    ELSE removeFileItem(r, f)

\* handleFileRename (lines 2400-2478)
handleFileRename(r, f, oldPath, id) ==
    IF ~r.container \/ r.currentFolder = NoPath THEN r
    ELSE LET wasInFolder == isPathInCurrentFolder(r, oldPath)
             isInFolder  == isFileInCurrentFolder(r, f)
         IN  IF wasInFolder /\ isInFolder
             THEN LET oldGroupName == getTargetGroupFromPath(r, oldPath)
                      newGroupName == getTargetGroup(f)
                      had == IF MapHas(r.fileElements, oldPath)
                             THEN MapGet(r.fileElements, oldPath) ELSE 0
                      r1 == updateElementMapKey(r, oldPath, tree[f].path)
                  IN  IF oldGroupName = newGroupName
                      THEN setTimeout0(r1, "update", f, << >>, id, had)
                      ELSE setTimeout0(r1, "move", f, newGroupName, id, had)
             ELSE IF wasInFolder /\ ~isInFolder
             THEN removeFileItem(r, f)
             ELSE IF ~wasInFolder /\ isInFolder
             THEN setTimeout0(r, "add", f, getTargetGroup(f), id, 0)
             ELSE r

\* getCurrentGroupForFile (lines 2556-2567)
getCurrentGroupForFile(r, f) ==
    LET grp == IF MapHas(r.fileElements, tree[f].path)
               THEN ContainingGroup(r, MapGet(r.fileElements, tree[f].path))
               ELSE << >>
    IN  IF grp # << >> THEN grp ELSE getTargetGroup(f)

\* handleFileModify (lines 2480-2505)
handleFileModify(r, f, id) ==
    IF ~r.container \/ r.currentFolder = NoPath THEN r
    ELSE IF ~isFileInCurrentFolder(r, f) THEN r
    ELSE IF ~MapHas(r.fileElements, tree[f].path) THEN r
    ELSE LET currentGroupName == getCurrentGroupForFile(r, f)
             targetGroupName  == getTargetGroup(f)
         IN  IF currentGroupName = targetGroupName
             THEN setTimeout0(r, "update", f, << >>, id, 0)
             ELSE setTimeout0(r, "move", f, targetGroupName, id, 0)

\* updateFileItem (lines 2081-2134): the title, preview and badge of the
\* item found under file.path are rewritten; no item, divider, group or
\* map entry is added or removed
updateFileItem(r, f) == r

(***************************************************************************)
(* The list under vault events.  Folder a is displayed, folder x is        *)
(* outside it; file f1 is created, renamed, moved and deleted, file f2     *)
(* lies in folder a and can be deleted.  Events reach the handlers in      *)
(* batches (inbox is the observer's pendingChanges, batch the copy         *)
(* processPendingChanges walks through); a handler's setTimeout(..., 0)    *)
(* callbacks run after the batch, before the next vault event and the next *)
(* batch; a suspended addFileItem resumes at any later moment.  last is    *)
(* history:                                                                *)
(*   last.of[f]  what the handler of the latest event of file f saw:       *)
(*               kind, id, old and new path, the item tracked under the    *)
(*               old path (had), the group displaying it (grp), the        *)
(*               file's target group, the scope checks, how far the file   *)
(*               is in the sequence created, renamed, deleted (chain: each *)
(*               event handled after the work of the one before was done), *)
(*               how many renames of the file inside the folder this       *)
(*               debounce window has had in a row, the first one of a      *)
(*               tracked file (run), the kind of the event of the file     *)
(*               handled before it in the same batch (prev),               *)
(*               and whether the work the handler deferred has been done   *)
(*               (settled)                                                 *)
(*   last.made   item -> the file it was rendered for                      *)
(***************************************************************************)
RFiles   == {"f1", "f2"}
RFolders == {PathA, PathX}
RNames   == {<<"c">>, <<"d">>}
StartTime == 2

NoFile  == [state |-> "none", path |-> NoPath, parent |-> NoPath, ctime |-> 0]
NoEvent == [kind |-> "none", id |-> 0, old |-> NoPath, new |-> NoPath, had |-> 0,
            grp |-> << >>, target |-> << >>, wasIn |-> FALSE, isIn |-> FALSE,
            chain |-> 0, run |-> 0, prev |-> "none", settled |-> TRUE]

LiveAt(folder, name, ct) ==
    [state |-> "live", path |-> FilePath(folder, name), parent |-> folder, ctime |-> ct]

InitList ==
    /\ \E t1 \in {NoFile, LiveAt(PathA, <<"c">>, 0), LiveAt(PathA, <<"c">>, StartTime),
                   LiveAt(PathX, <<"c">>, 0)},
          t2 \in {NoFile, LiveAt(PathA, <<"e">>, 0), LiveAt(PathA, <<"e">>, StartTime)} :
          tree = [f \in RFiles |-> IF f = "f1" THEN t1 ELSE t2]
    /\ pinnedFilesSet \in SUBSET {FilePath(PathA, <<"d">>)}
    /\ hiddenFilesSet \in SUBSET {FilePath(PathA, <<"c">>)}
    /\ now = StartTime
    /\ fcm = renderFileList(EmptyList(PathA, FALSE))
    /\ last = [of   |-> [f \in RFiles |-> NoEvent],
               made |-> [e \in 1..(fcm.nextEl - 1) |-> FileAt(KeyOfItem(fcm, e))]]
    /\ inbox = << >> /\ batch = << >> /\ rops = 0
    /\ InitHost /\ InitObserver /\ InitNoCache /\ InitNoNav
    /\ instance = 0 /\ fileState = [f \in Files |-> "new"]

ListFrame == UNCHANGED <<hostVars, objVars, flushVars, histVars, cacheVars, nav>>

\* history: the first change of the debounce window a change captured now
\* falls in
Window == IF inbox = << >> THEN rops + 1 ELSE inbox[1].win

Occupied(path) == \E h \in LiveFiles : tree[h].path = path

\* vault.on('create') -> queueChange  (vault-observer.ts:54-62)
ListCreate(f, folder, name) ==
    /\ batch = << >> /\ fcm.timeouts = << >> /\ rops < MaxOps
    /\ tree[f].state = "none"
    /\ ~Occupied(FilePath(folder, name))
    /\ tree' = [tree EXCEPT ![f] = LiveAt(folder, name, now)]
    /\ inbox' = Append(inbox, [kind |-> "create", f |-> f, oldPath |-> NoPath,
                               id |-> rops + 1, win |-> Window])
    /\ rops' = rops + 1
    /\ UNCHANGED <<pinnedFilesSet, hiddenFilesSet, now, batch, fcm, last>>
    /\ ListFrame

\* vault.on('rename') -> queueChange  (vault-observer.ts:74-83)
ListRename(f, folder, name) ==
    /\ batch = << >> /\ fcm.timeouts = << >> /\ rops < MaxOps
    /\ tree[f].state = "live"
    /\ ~Occupied(FilePath(folder, name))
    /\ tree' = [tree EXCEPT ![f].path = FilePath(folder, name), ![f].parent = folder]
    /\ inbox' = Append(inbox, [kind |-> "rename", f |-> f, oldPath |-> tree[f].path,
                               id |-> rops + 1, win |-> Window])
    /\ rops' = rops + 1
    /\ UNCHANGED <<pinnedFilesSet, hiddenFilesSet, now, batch, fcm, last>>
    /\ ListFrame

\* vault.on('delete') -> queueChange  (vault-observer.ts:64-72)
ListDelete(f) ==
    /\ batch = << >> /\ fcm.timeouts = << >> /\ rops < MaxOps
    /\ tree[f].state = "live"
    /\ tree' = [tree EXCEPT ![f].state = "deleted", ![f].parent = NoPath]
    /\ inbox' = Append(inbox, [kind |-> "delete", f |-> f, oldPath |-> NoPath,
                               id |-> rops + 1, win |-> Window])
    /\ rops' = rops + 1
    /\ UNCHANGED <<pinnedFilesSet, hiddenFilesSet, now, batch, fcm, last>>
    /\ ListFrame

\* vault.on('modify') -> queueChange  (vault-observer.ts:85-94)
ListModify(f) ==
    /\ batch = << >> /\ fcm.timeouts = << >> /\ rops < MaxOps
    /\ tree[f].state = "live"
    /\ inbox' = Append(inbox, [kind |-> "modify", f |-> f, oldPath |-> NoPath,
                               id |-> rops + 1, win |-> Window])
    /\ rops' = rops + 1
    /\ UNCHANGED <<tree, pinnedFilesSet, hiddenFilesSet, now, batch, fcm, last>>
    /\ ListFrame

\* nothing is queued, scheduled or suspended
Quiet == batch = << >> /\ inbox = << >> /\ fcm.timeouts = << >> /\ fcm.awaiting = {}

\* new Date(): a day passes, at a quiet moment
TimePasses ==
    /\ Quiet /\ now + 2 <= MaxTime
    /\ now' = now + 2
    /\ UNCHANGED <<tree, pinnedFilesSet, hiddenFilesSet, inbox, batch, fcm, rops, last>>
    /\ ListFrame

\* processPendingChanges (vault-observer.ts:140-147): the debounce timer
\* fires, after the zero-delay callbacks of the batch before
Flush ==
    /\ batch = << >> /\ inbox # << >> /\ fcm.timeouts = << >>
    /\ batch' = inbox
    /\ inbox' = << >>
    /\ UNCHANGED <<tree, pinnedFilesSet, hiddenFilesSet, now, fcm, rops, last>>
    /\ ListFrame

Settle(of, id) == [f \in DOMAIN of |-> IF of[f].id = id THEN [of[f] EXCEPT !.settled = TRUE] ELSE of[f]]

\* notifyViews (vault-observer.ts:154-177) for the next change of the batch
Deliver ==
    /\ batch # << >>
    /\ LET ev  == Head(batch)
           f   == ev.f
           old == IF ev.kind = "rename" THEN ev.oldPath ELSE tree[f].path
           had == IF MapHas(fcm.fileElements, old) THEN MapGet(fcm.fileElements, old) ELSE 0
           r1  == CASE ev.kind = "create" -> handleFileCreate(fcm, f, ev.id)
                    [] ev.kind = "delete" -> handleFileDelete(fcm, f, ev.id)
                    [] ev.kind = "rename" -> handleFileRename(fcm, f, ev.oldPath, ev.id)
                    [] ev.kind = "modify" -> handleFileModify(fcm, f, ev.id)
           rec == [kind |-> ev.kind, id |-> ev.id, old |-> old, new |-> tree[f].path,
                   had |-> had,
                   grp |-> IF had = 0 THEN << >> ELSE ContainingGroup(fcm, had),
                   target |-> getTargetGroup(f),
                   wasIn |-> IF ev.kind = "rename" THEN isPathInCurrentFolder(fcm, old)
                             ELSE isFileInCurrentFolder(fcm, f),
                   isIn |-> isFileInCurrentFolder(fcm, f),
                   chain |-> CASE ev.kind = "create" /\ isFileInCurrentFolder(fcm, f) -> 1
                               [] ev.kind = "rename" /\ last.of[f].chain = 1 /\ last.of[f].settled
                                  /\ had # 0 /\ isFileInCurrentFolder(fcm, f) -> 2
                               [] ev.kind = "delete" /\ last.of[f].chain = 2 /\ last.of[f].settled
                                  /\ had # 0 -> 3
                               [] OTHER -> 0,
                   run |-> IF ev.kind = "rename" /\ isPathInCurrentFolder(fcm, old)
                              /\ isFileInCurrentFolder(fcm, f)
                           THEN IF last.of[f].id >= ev.win
                                THEN IF last.of[f].run >= 1 THEN last.of[f].run + 1 ELSE 0
                                ELSE IF had # 0 THEN 1 ELSE 0
                           ELSE 0,
                   prev |-> IF last.of[f].id >= ev.win THEN last.of[f].kind ELSE "none",
                   settled |-> r1.timeouts = fcm.timeouts]
       IN  /\ fcm' = r1
           /\ last' = [last EXCEPT !.of[f] = rec]
    /\ batch' = Tail(batch)
    /\ UNCHANGED <<tree, pinnedFilesSet, hiddenFilesSet, now, inbox, rops>>
    /\ ListFrame

\* the next setTimeout(..., 0) callback runs to its first await
RunTimeout ==
    /\ batch = << >> /\ fcm.timeouts # << >>
    /\ LET t  == Head(fcm.timeouts)
           r0 == [fcm EXCEPT !.timeouts = Tail(@)]
           r1 == CASE t.kind = "add"    -> addFileItemStart(r0, t.f, t.g, t.id)
                   [] t.kind = "move"   -> moveFileItemStart(r0, t.f, t.g, t.id)
                   [] t.kind = "update" -> updateFileItem(r0, t.f)
       IN  /\ fcm' = r1
           /\ last' = [of   |-> IF r1.awaiting = fcm.awaiting THEN Settle(last.of, t.id) ELSE last.of,
                       made |-> IF r1.nextEl > fcm.nextEl THEN Append(last.made, t.f) ELSE last.made]
    /\ UNCHANGED <<tree, pinnedFilesSet, hiddenFilesSet, now, inbox, batch, rops>>
    /\ ListFrame

\* vault.read resolves: a suspended addFileItem goes on
Resume(a) ==
    /\ batch = << >>
    /\ a \in fcm.awaiting
    /\ fcm' = addFileItemResume(fcm, a)
    /\ last' = [last EXCEPT !.of = Settle(@, a.id)]
    /\ UNCHANGED <<tree, pinnedFilesSet, hiddenFilesSet, now, inbox, batch, rops>>
    /\ ListFrame

NextList ==
    \/ \E folder \in RFolders, name \in RNames : ListCreate("f1", folder, name)
    \/ \E folder \in RFolders, name \in RNames : ListRename("f1", folder, name)
    \/ \E f \in RFiles : ListDelete(f)
    \/ TimePasses
    \/ Flush
    \/ Deliver
    \/ RunTimeout
    \/ \E a \in fcm.awaiting : Resume(a)

SpecList == InitList /\ [][NextList]_vars

(***************************************************************************)
(* Vocabulary of the properties of incremental updates                     *)
(***************************************************************************)
\* node e is shown: it is a child of a group that is in the content
Displayed(r, e) == \E i \in 1..Len(r.content) : e \in SeqToSet(r.kids[r.content[i]])

\* the items shown that were rendered for file f
ItemsFor(f) == {e \in 1..Len(last.made) : last.made[e] = f /\ Displayed(fcm, e)}

\* no group without items is shown under the name groupName
NotShownEmpty(r, groupName) ==
    MapHas(r.groupElements, groupName) =>
       Len(ItemsOf(r, MapGet(r.groupElements, groupName))) > 0

\* no event has been handled after the one h records
LatestEvent(h) == \A g \in RFiles : last.of[g].id <= h.id

\* the handler of the latest event of f saw a rename of a tracked file
\* inside the displayed folder / out of it / into it
RenamedWithin(h) == h.kind = "rename" /\ h.wasIn /\ h.isIn /\ h.had # 0 /\ h.old # h.new
RenamedOut(h)    == h.kind = "rename" /\ h.wasIn /\ ~h.isIn /\ h.had # 0
RenamedIn(h)     == h.kind = "rename" /\ ~h.wasIn /\ h.isIn

(***************************************************************************)
(* C12  Rename re-keying: once the Renamed event of a tracked file that    *)
(* stays in the displayed folder and the work it deferred are processed,   *)
(* fileElements has an entry for the new path and none for the old one,    *)
(* the entry holds the element the old path had, and no second item is     *)
(* shown for the file.                                                     *)
(***************************************************************************)
C12_RenameRekeying ==
    \A f \in RFiles :
       LET h == last.of[f]
       IN  (RenamedWithin(h) /\ h.settled) =>
              /\ MapHas(fcm.fileElements, h.new)
              /\ ~MapHas(fcm.fileElements, h.old)
              /\ MapGet(fcm.fileElements, h.new) = h.had
              /\ Cardinality(ItemsFor(f)) <= 1

(***************************************************************************)
(* C13  Scope transition out: the handler of a rename of a tracked file    *)
(* from inside the displayed folder to outside it leaves no tracked entry  *)
(* and no shown item for the old path or the new one, and the file's group *)
(* is not left empty.                                                      *)
(***************************************************************************)
C13_ScopeTransitionOut ==
    \A f \in RFiles :
       LET h == last.of[f]
       IN  (RenamedOut(h) /\ h.settled) =>
              /\ ~MapHas(fcm.fileElements, h.old)
              /\ ~MapHas(fcm.fileElements, h.new)
              /\ ~Displayed(fcm, h.had)
              /\ h.grp # << >> => NotShownEmpty(fcm, h.grp)

(***************************************************************************)
(* C14  Scope transition in: once the Renamed event of a file moved from   *)
(* outside the displayed folder into it and the work it deferred are       *)
(* processed, the new path has a tracked entry and its item is shown in    *)
(* the file's target group.                                                *)
(***************************************************************************)
C14_ScopeTransitionIn ==
    \A f \in RFiles :
       LET h == last.of[f]
       IN  (RenamedIn(h) /\ h.settled) =>
              /\ MapHas(fcm.fileElements, h.new)
              /\ ContainingGroup(fcm, MapGet(fcm.fileElements, h.new)) = h.target

(***************************************************************************)
(* C15  Deleted: the handler of the Deleted event of a tracked file        *)
(* removes the file's item and its fileElements entry, and removes the     *)
(* group the item was shown in when no item is left in it, whatever the    *)
(* file's target group is at that moment.                                  *)
(***************************************************************************)
C15_DeleteRemovesGroup ==
    [][ (batch # << >> /\ Head(batch).kind = "delete"
         /\ MapHas(fcm.fileElements, tree[Head(batch).f].path))
        => LET path == tree[Head(batch).f].path
               e    == MapGet(fcm.fileElements, path)
               grp  == ContainingGroup(fcm, e)
           IN  /\ ~MapHas(fcm'.fileElements, path)
               /\ ~Displayed(fcm', e)
               /\ grp # << >> => NotShownEmpty(fcm', grp) ]_vars

(***************************************************************************)
(* C18  End to end, for a file of the displayed folder: once Created and   *)
(* its deferred work are processed the file has a tracked entry shown in   *)
(* its target group; once the following Renamed is processed the old path  *)
(* has no entry and the new path has one, shown in the same group as       *)
(* before; once the following Deleted is processed the file has no entry   *)
(* and its group is not left empty.  Each is stated for the moments when   *)
(* no event has been handled since.                                        *)
(***************************************************************************)
C18_EndToEnd ==
    \A f \in RFiles :
       LET h == last.of[f]
       IN  (h.settled /\ LatestEvent(h)) =>
              /\ h.chain = 1 =>
                    /\ MapHas(fcm.fileElements, h.new)
                    /\ ContainingGroup(fcm, MapGet(fcm.fileElements, h.new)) = h.target
              /\ (h.chain = 2 /\ h.old # h.new) =>
                    /\ ~MapHas(fcm.fileElements, h.old)
                    /\ MapHas(fcm.fileElements, h.new)
                    /\ ContainingGroup(fcm, MapGet(fcm.fileElements, h.new)) = h.grp
              /\ h.chain = 3 =>
                    /\ ~MapHas(fcm.fileElements, h.old)
                    /\ ~Displayed(fcm, h.had)
                    /\ h.grp # << >> => NotShownEmpty(fcm, h.grp)

(***************************************************************************)
(* C24  Re-key before lookup: when the callback deferred by the Renamed    *)
(* handler of a tracked file that is in the displayed folder before and    *)
(* after (updateFileItem or moveFileItem) runs, the lookup it makes under  *)
(* the file's path finds the entry, and the entry holds the item the       *)
(* handler re-keyed.                                                       *)
(***************************************************************************)
\* the callback that runs next was deferred by a handler that re-keyed an item
RekeyedCallbackRuns ==
    /\ RunTimeout
    /\ Head(fcm.timeouts).kind \in {"update", "move"}
    /\ Head(fcm.timeouts).had # 0

C24_RekeyBeforeLookup ==
    [][RekeyedCallbackRuns =>
          /\ MapHas(fcm.fileElements, tree[Head(fcm.timeouts).f].path)
          /\ MapGet(fcm.fileElements, tree[Head(fcm.timeouts).f].path)
                = Head(fcm.timeouts).had]_vars

(***************************************************************************)
(* C25  Incremental group creation keeps the group order: when a step      *)
(* registers a group that did not exist (ensureGroupExists) and the groups *)
(* were in the order of a full render before (Pinned, Today, Yesterday,    *)
(* then the date groups from the newest day to the oldest), they are in    *)
(* that order afterwards.                                                  *)
(***************************************************************************)
\* the label formatDateGroup gives the files of a day, without and with the year
DateLabels(day) ==
    LET d == DateOfDay(day)
    IN  {NumStr(d.date) \o <<" ">> \o d.month,
         NumStr(d.date) \o <<" ">> \o d.month \o <<" ">> \o d.year}

\* the day a date group is named after
DayNamed(name) == CHOOSE day \in 0..DayOf(MaxTime) : name \in DateLabels(day)

FullRenderOrder(r) ==
    \A i, j \in 1..Len(r.content) :
       i < j =>
          LET ni == NameOfGroup(r, r.content[i])
              nj == NameOfGroup(r, r.content[j])
          IN  /\ FixedRank(ni) <= FixedRank(nj)
              /\ (FixedRank(ni) = 3 /\ FixedRank(nj) = 3) => DayNamed(ni) > DayNamed(nj)

GroupCreated == MapKeys(fcm'.groupElements) \ MapKeys(fcm.groupElements) # {}

C25_GroupOrderKept ==
    [][(GroupCreated /\ FullRenderOrder(fcm)) => FullRenderOrder(fcm')]_vars

(***************************************************************************)
(* C26  Item order and separators: whenever no addFileItem is suspended,   *)
(* in every displayed group the items are in newest-first creation-time    *)
(* order and the children of the group container are item, divider, item,  *)
(* ..., item: one divider between two consecutive items, none before the   *)
(* first item, after the last one or next to a single item.                *)
(***************************************************************************)
Separated(ks) ==
    \A i \in 1..Len(ks) : (ks[i] = Divider) <=> (i % 2 = 0 /\ i < Len(ks))

NewestFirst(items) ==
    \A a, b \in 1..Len(items) :
       a < b => tree[last.made[items[a]]].ctime >= tree[last.made[items[b]]].ctime

C26_OrderAndDividers ==
    fcm.awaiting = {} =>
       \A i \in 1..Len(fcm.content) :
          /\ Separated(fcm.kids[fcm.content[i]])
          /\ NewestFirst(ItemsOf(fcm, fcm.content[i]))

(***************************************************************************)
(* C27  A Renamed event whose old path has no entry in fileElements (a     *)
(* hidden file, a file not rendered yet) while the old and the new path    *)
(* are in the displayed folder is ignored: neither its handler nor the     *)
(* callback the handler deferred adds or removes an entry, an item or a    *)
(* group.                                                                  *)
(***************************************************************************)
UntrackedRenameHandled ==
    /\ Deliver
    /\ Head(batch).kind = "rename"
    /\ ~MapHas(fcm.fileElements, Head(batch).oldPath)
    /\ isPathInCurrentFolder(fcm, Head(batch).oldPath)
    /\ isFileInCurrentFolder(fcm, Head(batch).f)

UntrackedCallbackRuns ==
    /\ RunTimeout
    /\ Head(fcm.timeouts).kind \in {"update", "move"}
    /\ Head(fcm.timeouts).had = 0

ListUnchanged ==
    /\ fcm'.fileElements = fcm.fileElements
    /\ fcm'.groupElements = fcm.groupElements
    /\ fcm'.content = fcm.content
    /\ fcm'.kids = fcm.kids
    /\ fcm'.temp = fcm.temp
    /\ fcm'.awaiting = fcm.awaiting

C27_UntrackedRenameIgnored ==
    [][(UntrackedRenameHandled \/ UntrackedCallbackRuns) => ListUnchanged]_vars

(***************************************************************************)
(* The list under renames only: file f1 is renamed inside folder a (three  *)
(* names, so that it can go on to a third path), moved out to x/d and      *)
(* back, up to MaxRenames times.                                           *)
(***************************************************************************)
MaxRenames == 4
WNames == {<<"c">>, <<"d">>, <<"g">>}

\* vault.on('rename') -> queueChange  (vault-observer.ts:74-83)
RenameStep(f, folder, name) ==
    /\ batch = << >> /\ fcm.timeouts = << >> /\ rops < MaxRenames
    /\ tree[f].state = "live"
    /\ ~Occupied(FilePath(folder, name))
    /\ tree' = [tree EXCEPT ![f].path = FilePath(folder, name), ![f].parent = folder]
    /\ inbox' = Append(inbox, [kind |-> "rename", f |-> f, oldPath |-> tree[f].path,
                               id |-> rops + 1, win |-> Window])
    /\ rops' = rops + 1
    /\ UNCHANGED <<pinnedFilesSet, hiddenFilesSet, now, batch, fcm, last>>
    /\ ListFrame

NextRename ==
    \/ \E name \in WNames : RenameStep("f1", PathA, name)
    \/ RenameStep("f1", PathX, <<"d">>)
    \/ Flush
    \/ Deliver
    \/ RunTimeout
    \/ \E a \in fcm.awaiting : Resume(a)

SpecRename == InitList /\ [][NextRename]_vars

(***************************************************************************)
(* C30  Several renames in one window: when a tracked file was renamed     *)
(* two or more times inside the displayed folder within one debounce       *)
(* window (back to its first path or on to another one), then after the    *)
(* flush and all the deferred work, no later event having been handled,    *)
(* fileElements has exactly one entry for the file, under its final path,  *)
(* and exactly one item is shown for it, the one that entry holds.         *)
(***************************************************************************)
\* the entries of fileElements whose item was rendered for file f
EntriesFor(f) ==
    {i \in 1..Len(fcm.fileElements) : last.made[fcm.fileElements[i].v] = f}

RenamedRepeatedly(f) ==
    /\ last.of[f].kind = "rename"
    /\ last.of[f].run >= 2
    /\ LatestEvent(last.of[f])
    /\ Quiet

C30_RepeatedRename ==
    \A f \in RFiles :
       RenamedRepeatedly(f) =>
          /\ Cardinality(EntriesFor(f)) = 1
          /\ \A i \in EntriesFor(f) : fcm.fileElements[i].k = tree[f].path
          /\ MapHas(fcm.fileElements, tree[f].path)
          /\ ItemsFor(f) = {MapGet(fcm.fileElements, tree[f].path)}

(***************************************************************************)
(* The two scope checks as functions: for every displayed folder and mode  *)
(* and every placement of two files (live, or deleted and so without       *)
(* parent link) in the folders a, a/b, a2, x and the root, the checks are  *)
(* applied to a file and to the path of a folder; last holds the result.   *)
(***************************************************************************)
PathA2 == <<"a", "2">>
SFolders == {RootPath, PathA, PathAB, PathA2, PathX}
SFiles == {"f1", "f2"}
SName(f) == IF f = "f1" THEN <<"c">> ELSE <<"d">>

\* TFolder.parent
ScopeParent(folder) ==
    CASE folder = PathAB -> PathA
      [] folder = RootPath -> NoPath
      [] OTHER -> RootPath

InitScope ==
    /\ \E place \in [SFiles -> SFolders], gone \in SUBSET SFiles :
          tree = [f \in SFiles |->
                    [state  |-> IF f \in gone THEN "deleted" ELSE "live",
                     path   |-> FilePath(place[f], SName(f)),
                     parent |-> IF f \in gone THEN NoPath ELSE place[f],
                     ctime  |-> 0]]
    /\ \E folder \in SFolders, all \in BOOLEAN : fcm = EmptyList(folder, all)
    /\ pinnedFilesSet = {} /\ hiddenFilesSet = {} /\ now = 0
    /\ inbox = << >> /\ batch = << >> /\ rops = 0 /\ last = << >>
    /\ InitHost /\ InitObserver /\ InitNoCache /\ InitNoNav
    /\ instance = 0 /\ fileState = [f \in Files |-> "new"]

ScopeFrame ==
    /\ UNCHANGED <<tree, pinnedFilesSet, hiddenFilesSet, now, inbox, batch, fcm, rops>>
    /\ UNCHANGED <<hostVars, objVars, flushVars, histVars, cacheVars, nav>>

\* both checks on a file, as handleFileRename makes them (lines 2415-2416)
CheckFile(f) ==
    /\ last' = [kind |-> "file", f |-> f, path |-> tree[f].path,
                byFile |-> isFileInCurrentFolder(fcm, f),
                byPath |-> isPathInCurrentFolder(fcm, tree[f].path)]
    /\ ScopeFrame

\* the path check on the path of a folder
CheckFolder(folder) ==
    /\ last' = [kind |-> "folder", f |-> Null, path |-> folder,
                byFile |-> FALSE,
                byPath |-> isPathInCurrentFolder(fcm, folder)]
    /\ ScopeFrame

NextScope ==
    \/ \E f \in SFiles : CheckFile(f)
    \/ \E folder \in SFolders \ {RootPath} : CheckFolder(folder)

SpecScope == InitScope /\ [][NextScope]_vars

(***************************************************************************)
(* C28  Scope of a non-root folder P: the path check holds of P itself,    *)
(* of the folders below P and of the files whose parent is P or a folder   *)
(* below P, and of nothing else; in particular not of a2 and the files in  *)
(* it when P is a.  The path check of a file's path and the file check of  *)
(* the file give the same answer for every file, in every mode.            *)
(***************************************************************************)
\* folder is P or lies below it, by the parent links
RECURSIVE InChain(_, _)
InChain(folder, P) ==
    IF folder = NoPath THEN FALSE
    ELSE folder = P \/ InChain(ScopeParent(folder), P)

\* the folder a file lies in, or lay in before it was deleted
HomeOf(f) == CHOOSE folder \in SFolders : tree[f].path = FilePath(folder, SName(f))

FolderMode == ~fcm.isAllNotesMode /\ ~isRoot(fcm.currentFolder)

C28_ScopeByPath ==
    last # << >> =>
       /\ last.kind = "file" => last.byFile = last.byPath
       /\ (FolderMode /\ last.kind = "file") =>
             (last.byPath <=> InChain(HomeOf(last.f), fcm.currentFolder))
       /\ (FolderMode /\ last.kind = "folder") =>
             (last.byPath <=> InChain(last.path, fcm.currentFolder))

\* folder a is displayed: the file a2/c is found out of scope by both checks
C28_Witness ==
    /\ last # << >>
    /\ FolderMode
    /\ fcm.currentFolder = PathA
    /\ last.kind = "file"
    /\ last.path = FilePath(PathA2, <<"c">>)
    /\ ~last.byPath /\ ~last.byFile

(***************************************************************************)
(* refreshFileList (lines 2029-2042) step by step.  renderFileList         *)
(* computes the files and their groups once (lines 1445-1448) and then     *)
(* awaits renderFileGroup for each non-empty group, which awaits           *)
(* renderFileItem for each file, which creates the item, enters it in      *)
(* fileElements and awaits vault.read (line 1647).  Between two items the  *)
(* observer's flushes, the zero-delay callbacks and the suspended          *)
(* addFileItem calls run.                                                  *)
(***************************************************************************)
\* lines 1451-1455 up to the next await: the next non-empty group is created
\* and the item of its first file; without such a group the call returns
RECURSIVE RenderNext(_, _)
RenderNext(r, groups) ==
    IF groups = << >> THEN [r EXCEPT !.rendering = << >>]
    ELSE IF Len(Head(groups).v) = 0 THEN RenderNext(r, Tail(groups))
    ELSE LET g  == Len(r.kids) + 1
             r1 == renderFileGroup(r, Head(groups).k, << >>, Len(r.content) + 1)
             r2 == renderFileItemIn(r1, g, Head(groups).v[1])
         IN  [r2 EXCEPT !.rendering = <<[groups |-> Tail(groups), g |-> g,
                                         files |-> Head(groups).v, i |-> 1]>>]

\* refreshFileList up to the first await
refreshFileList(r) ==
    IF ~r.container \/ r.currentFolder = NoPath THEN r
    ELSE LET r1 == [r EXCEPT !.fileElements = << >>,
                             !.groupElements = << >>,
                             !.content = << >>]
         IN  RenderNext(r1, groupFilesByDate(getFiles(r1)))

\* the await of line 1568 resolves: lines 1570-1573 and the next item, or
\* the next group
renderResume(r) ==
    LET fr == r.rendering[1]
    IN  IF fr.i < Len(fr.files)
        THEN LET r1 == [r EXCEPT !.kids[fr.g] = Append(@, Divider)]
                 r2 == renderFileItemIn(r1, fr.g, fr.files[fr.i + 1])
             IN  [r2 EXCEPT !.rendering = <<[fr EXCEPT !.i = @ + 1]>>]
        ELSE RenderNext(r, fr.groups)

\* history: the files the items created between r and r1 were rendered for
MadeBy(r, r1, made) ==
    IF r1.nextEl > r.nextEl
    THEN Append(made, r1.rendering[1].files[r1.rendering[1].i])
    ELSE made

\* the user unpins or hides a file, or opens the folder again: refreshFileList
RefreshFileList ==
    /\ batch = << >> /\ fcm.timeouts = << >> /\ rops < MaxOps
    /\ fcm.rendering = << >>
    /\ fcm' = refreshFileList(fcm)
    /\ last' = [last EXCEPT !.made = MadeBy(fcm, fcm', @)]
    /\ rops' = rops + 1
    /\ UNCHANGED <<tree, pinnedFilesSet, hiddenFilesSet, now, inbox, batch>>
    /\ ListFrame

\* vault.read resolves: the suspended rebuild goes on
RenderResume ==
    /\ batch = << >>
    /\ fcm.rendering # << >>
    /\ fcm' = renderResume(fcm)
    /\ last' = [last EXCEPT !.made = MadeBy(fcm, fcm', @)]
    /\ UNCHANGED <<tree, pinnedFilesSet, hiddenFilesSet, now, inbox, batch, rops>>
    /\ ListFrame

NextRefresh ==
    \/ \E folder \in RFolders, name \in RNames : ListCreate("f1", folder, name)
    \/ \E folder \in RFolders, name \in RNames : ListRename("f1", folder, name)
    \/ \E f \in RFiles : ListDelete(f)
    \/ Flush
    \/ Deliver
    \/ RunTimeout
    \/ \E a \in fcm.awaiting : Resume(a)
    \/ RefreshFileList
    \/ RenderResume

SpecRefresh == InitList /\ [][NextRefresh]_vars

(***************************************************************************)
(* C29  When a rebuild by refreshFileList completes, and no change is      *)
(* waiting to be flushed or handled and no incremental update is           *)
(* scheduled or suspended, the paths tracked in fileElements are the paths *)
(* of the visible files of the displayed folder, and the groups            *)
(* registered and displayed are the target groups of those files, once     *)
(* each; also when changes were flushed while the rebuild was rendering.   *)
(***************************************************************************)
RebuildCompletes == fcm.rendering # << >> /\ fcm'.rendering = << >>

C29_RebuildExact ==
    [][(RebuildCompletes /\ Quiet') =>
          /\ MapKeys(fcm'.fileElements) = {tree'[f].path : f \in VisibleInScope(fcm')}
          /\ MapKeys(fcm'.groupElements) = {getTargetGroup(f) : f \in VisibleInScope(fcm')}
          /\ Len(fcm'.content) = Cardinality(MapKeys(fcm'.groupElements))
          /\ \A i \in 1..Len(fcm'.content) :
                \E j \in 1..Len(fcm'.groupElements) :
                   fcm'.groupElements[j].v = fcm'.content[i]]_vars

(***************************************************************************)
(* C31  Create then delete in one batch: when the Created and then the     *)
(* Deleted event of a file of the displayed folder were handled in one     *)
(* batch, then once nothing is queued, scheduled or suspended any more and *)
(* no later event has been handled, fileElements has no entry for the      *)
(* file's path and no item rendered for the file is shown.                 *)
(***************************************************************************)
CreatedThenDeleted(h) == h.kind = "delete" /\ h.prev = "create" /\ h.isIn

C31_CreateThenDelete ==
    \A f \in RFiles :
       LET h == last.of[f]
       IN  (CreatedThenDeleted(h) /\ LatestEvent(h) /\ Quiet) =>
              /\ ~MapHas(fcm.fileElements, h.new)
              /\ ItemsFor(f) = {}

(***************************************************************************)
(* C32  No duplicate entries: whenever nothing is queued, scheduled or     *)
(* suspended and no rebuild is rendering, every file item shown is the     *)
(* element of exactly one fileElements entry and the element of every      *)
(* entry is a file item that is shown.                                     *)
(***************************************************************************)
ShownItems(r) == {e \in 1..(r.nextEl - 1) : Displayed(r, e)}
KeysOf(r, e) == {i \in 1..Len(r.fileElements) : r.fileElements[i].v = e}

C32_OneToOne ==
    (Quiet /\ fcm.rendering = << >>) =>
       /\ \A e \in ShownItems(fcm) : Cardinality(KeysOf(fcm, e)) = 1
       /\ \A i \in 1..Len(fcm.fileElements) : fcm.fileElements[i].v \in ShownItems(fcm)

(***************************************************************************)
(* The list under Modified events: the files of folder a are modified and  *)
(* renamed inside the folder while days pass.                              *)
(***************************************************************************)
NextModify ==
    \/ \E f \in RFiles : ListModify(f)
    \/ \E name \in RNames : ListRename("f1", PathA, name)
    \/ TimePasses
    \/ Flush
    \/ Deliver
    \/ RunTimeout
    \/ \E a \in fcm.awaiting : Resume(a)

SpecModify == InitList /\ [][NextModify]_vars

(***************************************************************************)
(* C33  No empty groups: whenever the events handled so far and the work   *)
(* they deferred are done (nothing is queued, scheduled or suspended),     *)
(* every group registered in groupElements holds at least one file item;   *)
(* so the group a Modified or Renamed event moved its last item out of is  *)
(* gone.                                                                   *)
(***************************************************************************)
C33_NoEmptyGroups ==
    Quiet =>
       \A i \in 1..Len(fcm.groupElements) :
          Len(ItemsOf(fcm, fcm.groupElements[i].v)) > 0

(***************************************************************************)
(* The list in each scope mode: All Notes, the root folder (direct         *)
(* children only) and folder a.  File f1 is created, renamed, modified and *)
(* deleted in the root and in folder a; a/c may be hidden.                 *)
(***************************************************************************)
Modes == {[folder |-> RootPath, all |-> TRUE],
          [folder |-> RootPath, all |-> FALSE],
          [folder |-> PathA,    all |-> FALSE]}
MFolders == {RootPath, PathA}

InitModes ==
    /\ \E t1 \in {NoFile, LiveAt(PathA, <<"c">>, 0), LiveAt(RootPath, <<"c">>, 0)},
          t2 \in {NoFile, LiveAt(PathA, <<"e">>, 0)} :
          tree = [f \in RFiles |-> IF f = "f1" THEN t1 ELSE t2]
    /\ pinnedFilesSet = {}
    /\ hiddenFilesSet \in SUBSET {FilePath(PathA, <<"c">>)}
    /\ now = StartTime
    /\ \E mode \in Modes : fcm = renderFileList(EmptyList(mode.folder, mode.all))
    /\ last = [of   |-> [f \in RFiles |-> NoEvent],
               made |-> [e \in 1..(fcm.nextEl - 1) |-> FileAt(KeyOfItem(fcm, e))]]
    /\ inbox = << >> /\ batch = << >> /\ rops = 0
    /\ InitHost /\ InitObserver /\ InitNoCache /\ InitNoNav
    /\ instance = 0 /\ fileState = [f \in Files |-> "new"]

NextModes ==
    \/ \E folder \in MFolders : ListCreate("f1", folder, <<"c">>)
    \/ \E folder \in MFolders, name \in RNames : ListRename("f1", folder, name)
    \/ ListDelete("f1")
    \/ ListModify("f1")
    \/ Flush
    \/ Deliver
    \/ RunTimeout
    \/ \E a \in fcm.awaiting : Resume(a)

SpecModes == InitModes /\ [][NextModes]_vars

(***************************************************************************)
(* C34  Incremental updates agree with a full rebuild: whenever nothing is *)
(* queued, scheduled or suspended, the paths tracked in fileElements are   *)
(* the paths a render of the displayed folder in its mode would track now, *)
(* and each tracked item is shown in the group that render would show it   *)
(* in.                                                                     *)
(***************************************************************************)
Rebuilt(r) == renderFileList(EmptyList(r.currentFolder, r.isAllNotesMode))

GroupOfPath(r, path) == ContainingGroup(r, MapGet(r.fileElements, path))

C34_AgreesWithRebuild ==
    Quiet =>
       /\ MapKeys(fcm.fileElements) = MapKeys(Rebuilt(fcm).fileElements)
       /\ \A path \in MapKeys(fcm.fileElements) \cap MapKeys(Rebuilt(fcm).fileElements) :
             GroupOfPath(fcm, path) = GroupOfPath(Rebuilt(fcm), path)

(***************************************************************************)
(* C35  Shutdown releases every subscription: when, after                  *)
(* VaultObserver.cleanup() has destroyed the instance (MyPlugin.onunload), *)
(* a view closes and calls getInstance(app).unregisterView(view), the      *)
(* vault holds the listeners of no VaultObserver afterwards.               *)
(***************************************************************************)
CleanedUp == instance = 0 /\ created > 0

C35_ShutdownReleases ==
    [][\A o \in Observers : (CleanedUp /\ UnregisterView(o)) => subs' = {}]_vars

(***************************************************************************)
(* The container lifecycle of a FolderContainerManager (the observer "A"): *)
(* openContainer, closeContainer / cleanup, and createContainer, which     *)
(* openContainer defers with setTimeout(..., 0), which retries itself with *)
(* a timer while the workspace element is not found, and which awaits      *)
(* renderFileList between creating the container and inserting it.  In    *)
(* this specification fcm holds the manager's lifecycle fields:            *)
(*   container      0 (null) or the container element                      *)
(*   currentFolder, isAllNotesMode, retryCount   the fields of these names *)
(*   timeouts       the setTimeout(..., 0) callbacks not run yet           *)
(*   retries        the number of armed retry timers                       *)
(*   creating       the number of createContainer calls suspended in await *)
(*   inserted       the container elements that are children of the        *)
(*                  workspace                                              *)
(*   nextEl         the next container element to be created               *)
(* and last is history: whether closeContainer or cleanup has returned     *)
(* since openContainer was called last.                                    *)
(***************************************************************************)
maxRetries == 5
Manager == "A"
Targets == {PathA, RootPath}

InitContainer ==
    /\ fcm = [container |-> 0, currentFolder |-> NoPath, isAllNotesMode |-> FALSE,
              retryCount |-> 0, timeouts |-> << >>, retries |-> 0, creating |-> 0,
              inserted |-> {}, nextEl |-> 1]
    /\ last = [closed |-> FALSE]
    /\ tree = << >> /\ pinnedFilesSet = {} /\ hiddenFilesSet = {} /\ now = 0
    /\ inbox = << >> /\ batch = << >> /\ rops = 0
    /\ InitHost /\ InitObserver /\ InitNoCache /\ InitNoNav
    /\ instance = 0 /\ fileState = [f \in Files |-> "new"]

ContainerFrame ==
    /\ UNCHANGED <<fileState, fileParent, timers, nextTimer>>
    /\ UNCHANGED flushVars
    /\ UNCHANGED <<clock, nMut, calls, misuse, captured, delivered, batches, regAt, discarded>>
    /\ UNCHANGED <<tree, pinnedFilesSet, hiddenFilesSet, now, inbox, batch>>
    /\ UNCHANGED <<cacheVars, nav>>

\* openContainer (lines 1228-1262); target RootPath stands for 'ALL_NOTES'
OpenContainer(target) ==
    /\ rops < MaxOps
    /\ rops' = rops + 1
    /\ IF fcm.container # 0
       THEN /\ fcm' = [fcm EXCEPT !.timeouts = Append(@, [kind |-> "update", target |-> target])]
            /\ UNCHANGED <<objVars, subs, registered, last>>
       ELSE /\ fcm' = [fcm EXCEPT !.isAllNotesMode = isRoot(target),
                                  !.currentFolder = target,
                                  !.timeouts = Append(@, [kind |-> "create", target |-> target])]
            /\ getInstance
            /\ views' = registerView(thisViews, Manager)
            /\ registered' = registered \cup {Manager}
            /\ last' = [closed |-> FALSE]
    /\ ContainerFrame

\* closeContainer (lines 1286-1305); cleanup (lines 1428-1439) comes to the
\* same: its own unregisterView is under the same test
CloseContainer ==
    /\ rops < MaxOps
    /\ rops' = rops + 1
    /\ IF fcm.container # 0
       THEN /\ getInstance
            /\ views' = unregisterView(thisViews, Manager)
            /\ registered' = registered \ {Manager}
            /\ fcm' = [fcm EXCEPT !.inserted = @ \ {fcm.container},
                                  !.container = 0,
                                  !.currentFolder = NoPath,
                                  !.isAllNotesMode = FALSE]
       ELSE UNCHANGED <<objVars, subs, registered, fcm>>
    /\ last' = [closed |-> TRUE]
    /\ ContainerFrame

\* createContainer (lines 1333-1407) up to 'await this.renderFileList';
\* found: whether findWorkspaceElement finds the workspace
createContainer(r, found) ==
    IF r.currentFolder = NoPath THEN r
    ELSE IF ~found
    THEN IF r.retryCount < maxRetries
         THEN [r EXCEPT !.retryCount = @ + 1, !.retries = @ + 1]
         ELSE r
    ELSE [r EXCEPT !.retryCount = 0,
                   !.container = r.nextEl,
                   !.nextEl = @ + 1,
                   !.creating = @ + 1]

\* createContainer from line 1409 on: this.container is read again; with
\* null insertBefore / appendChild throws
createContainerResume(r) ==
    [r EXCEPT !.creating = @ - 1,
              !.inserted = IF r.container # 0 THEN @ \cup {r.container} ELSE @]

\* updateContainer (lines 2057-2078), as far as the lifecycle goes
updateContainer(r, target) ==
    IF r.container = 0 THEN r
    ELSE [r EXCEPT !.isAllNotesMode = isRoot(target), !.currentFolder = target]

\* the next setTimeout(..., 0) callback of openContainer runs
RunDeferred(found) ==
    /\ fcm.timeouts # << >>
    /\ LET t  == Head(fcm.timeouts)
           r0 == [fcm EXCEPT !.timeouts = Tail(@)]
       IN  fcm' = IF t.kind = "create" THEN createContainer(r0, found)
                  ELSE updateContainer(r0, t.target)
    /\ UNCHANGED <<objVars, subs, registered, rops, last>>
    /\ ContainerFrame

\* a retry timer fires (lines 1352-1354)
RetryFires(found) ==
    /\ fcm.retries > 0
    /\ fcm' = createContainer([fcm EXCEPT !.retries = @ - 1], found)
    /\ UNCHANGED <<objVars, subs, registered, rops, last>>
    /\ ContainerFrame

\* renderFileList has returned: a suspended createContainer goes on
CreateResume ==
    /\ fcm.creating > 0
    /\ fcm' = createContainerResume(fcm)
    /\ UNCHANGED <<objVars, subs, registered, rops, last>>
    /\ ContainerFrame

NextContainer ==
    \/ \E target \in Targets : OpenContainer(target)
    \/ CloseContainer
    \/ \E found \in BOOLEAN : RunDeferred(found)
    \/ \E found \in BOOLEAN : RetryFires(found)
    \/ CreateResume

SpecContainer == InitContainer /\ [][NextContainer]_vars

(***************************************************************************)
(* C36  Registration follows the container lifecycle: from the return of   *)
(* closeContainer() or cleanup() until openContainer() is called again,    *)
(* the manager is not among the observer's views, and no step creates a    *)
(* container element or inserts one into the workspace.                    *)
(***************************************************************************)
C36_Unregistered == last.closed => Manager \notin SeqToSet(thisViews)

C36_NoContainerMade ==
    (last.closed /\ last'.closed) =>
        /\ fcm'.nextEl = fcm.nextEl
        /\ fcm'.inserted \subseteq fcm.inserted

C36_ClosedStaysClosed == []C36_Unregistered /\ [][C36_NoContainerMade]_vars

(***************************************************************************)
(* The list when its container is closed: closeContainer may come between  *)
(* a flush and the zero-delay callbacks its handlers scheduled.            *)
(***************************************************************************)
\* closeContainer (lines 1286-1305) on the fields of the list; the detached
\* DOM subtree stays as it is
closeContainer(r) ==
    IF ~r.container THEN r
    ELSE [r EXCEPT !.container = FALSE,
                   !.currentFolder = NoPath,
                   !.isAllNotesMode = FALSE,
                   !.fileElements = << >>,
                   !.groupElements = << >>]

ListClose ==
    /\ batch = << >> /\ rops < MaxOps
    /\ fcm.container
    /\ fcm' = closeContainer(fcm)
    /\ rops' = rops + 1
    /\ UNCHANGED <<tree, pinnedFilesSet, hiddenFilesSet, now, inbox, batch, last>>
    /\ ListFrame

NextClose ==
    \/ \E name \in RNames : ListCreate("f1", PathA, name)
    \/ \E name \in RNames : ListRename("f1", PathA, name)
    \/ ListClose
    \/ Flush
    \/ Deliver
    \/ RunTimeout
    \/ \E a \in fcm.awaiting : Resume(a)

SpecClose == InitList /\ [][NextClose]_vars

(***************************************************************************)
(* C37  addFileItem terminates: whenever a deferred addFileItem (or the    *)
(* addFileItem of a deferred moveFileItem) runs, it calls                  *)
(* ensureGroupExists at most once, does not exhaust the stack, and goes on *)
(* to render the item it will insert.                                      *)
(***************************************************************************)
AddItemRuns ==
    /\ batch = << >> /\ fcm.timeouts # << >>
    /\ Head(fcm.timeouts).kind \in {"add", "move"}
    /\ fcm'.timeouts = Tail(fcm.timeouts)

C37_AddTerminates ==
    [][AddItemRuns =>
          LET t  == Head(fcm.timeouts)
              r0 == IF t.kind = "move" THEN removeFileItem(fcm, t.f) ELSE fcm
              en == addFileItemEnter(r0, t.g, 0)
          IN  /\ en.calls <= 1
              /\ ~en.thrown
              /\ Cardinality(fcm'.awaiting) = Cardinality(fcm.awaiting) + 1]_vars

(***************************************************************************)
(* class NavigatorView: the folder counts  (navigator-view.ts)             *)
(*                                                                         *)
(* renderFolderTree renders the root header and every folder below it,     *)
(* each with a count element, and keeps the elements in folderElements     *)
(* under folder.path.  The handlers of the view are synchronous, so a      *)
(* flush (processPendingChanges, vault-observer.ts:140-177) runs them for  *)
(* every change of the window in one step.  Every entity here is a TFile.  *)
(*   last.flushed   history: the number of flushes so far                  *)
(***************************************************************************)
NFiles == {"f1", "f2"}
NavName(f) == IF f = "f1" THEN <<"c">> ELSE <<"e">>

\* folder is d or lies below d
RECURSIVE InSubtree(_, _)
InSubtree(folder, d) ==
    folder # NoPath /\ (folder = d \/ InSubtree(FolderParent(folder), d))

\* calculateFolderCounts (287-306): folder.path -> the number of the files
\* among folder.children, recursively
calculateFolderCounts(t) ==
    [d \in Folders |->
        Cardinality({f \in DOMAIN t : t[f].state = "live" /\ InSubtree(t[f].parent, d)})]

\* renderFolderTree (111-128), renderRootHeader (156-167), renderFolder (230-277)
renderFolderTree(t) ==
    [folderElements |-> Folders, count |-> calculateFolderCounts(t)]

\* updateFolderCount (375-380)
updateFolderCount(n, folderPath, newCount) ==
    IF folderPath \in n.folderElements
    THEN [n EXCEPT !.count[folderPath] = newCount]
    ELSE n

\* the loop of updateCountsForAffectedFolders (424-428)
RECURSIVE updateEach(_, _, _)
updateEach(n, folderCounts, affectedFolders) ==
    IF affectedFolders = << >> THEN n
    ELSE LET folderPath == Head(affectedFolders)
             newCount == IF folderPath \in DOMAIN folderCounts
                         THEN folderCounts[folderPath] ELSE 0
         IN  updateEach(updateFolderCount(n, folderPath, newCount),
                        folderCounts, Tail(affectedFolders))

\* updateCountsForAffectedFolders (420-429)
updateCountsForAffectedFolders(n, t, affectedFolders) ==
    updateEach(n, calculateFolderCounts(t), affectedFolders)

\* handleFileCreate / handleFileDelete / handleFileRename for a TFile
\* (383-411), called by notifyViews for each change in turn
RECURSIVE NavNotify(_, _, _)
NavNotify(n, t, chs) ==
    IF chs = << >> THEN n
    ELSE NavNotify(updateCountsForAffectedFolders(n, t, Head(chs).affectedFolders),
                   t, Tail(chs))

InitNav ==
    /\ \E d1, d2 \in Folders \cup {NoPath} :
          tree = [f \in NFiles |->
                    LET d == IF f = "f1" THEN d1 ELSE d2
                    IN  IF d = NoPath THEN NoFile ELSE LiveAt(d, NavName(f), 0)]
    /\ nav = renderFolderTree(tree)
    /\ inbox = << >> /\ batch = << >> /\ rops = 0
    /\ last = [flushed |-> 0, moved |-> FALSE, detached |-> FALSE]
    /\ pinnedFilesSet = {} /\ hiddenFilesSet = {} /\ now = 0 /\ fcm = << >>
    /\ InitHost /\ InitObserver /\ InitNoCache
    /\ instance = 0 /\ fileState = [f \in Files |-> "new"]

NavFrame ==
    /\ UNCHANGED <<pinnedFilesSet, hiddenFilesSet, now, batch, fcm>>
    /\ UNCHANGED <<hostVars, objVars, flushVars, histVars, cacheVars>>

\* vault.on('create') -> queueChange  (vault-observer.ts:54-62)
NavCreate(f, d) ==
    /\ rops < MaxOps
    /\ tree[f].state = "none"
    /\ tree' = [tree EXCEPT ![f] = LiveAt(d, NavName(f), 0)]
    /\ inbox' = Append(inbox, [kind |-> "create", f |-> f,
                               affectedFolders |-> calculateAffectedFolders(d, NoPath)])
    /\ rops' = rops + 1
    /\ UNCHANGED <<nav, last>>
    /\ NavFrame

\* vault.on('delete') -> queueChange  (vault-observer.ts:64-72); whether the
\* deleted entity still carries its parent link is up to the host
NavDelete(f, detached) ==
    /\ rops < MaxOps
    /\ tree[f].state = "live"
    /\ tree' = [tree EXCEPT ![f].state = "deleted",
                            ![f].parent = IF detached THEN NoPath ELSE @]
    /\ inbox' = Append(inbox, [kind |-> "delete", f |-> f,
                               affectedFolders |->
                                   calculateAffectedFolders(tree'[f].parent, NoPath)])
    /\ rops' = rops + 1
    /\ last' = [last EXCEPT !.detached = @ \/ detached]
    /\ UNCHANGED nav
    /\ NavFrame

\* vault.on('rename') -> queueChange  (vault-observer.ts:74-83): the file
\* is moved to folder d
NavRename(f, d) ==
    /\ rops < MaxOps
    /\ tree[f].state = "live"
    /\ d # tree[f].parent
    /\ tree' = [tree EXCEPT ![f].path = FilePath(d, NavName(f)), ![f].parent = d]
    /\ inbox' = Append(inbox, [kind |-> "rename", f |-> f,
                               affectedFolders |->
                                   calculateAffectedFolders(d, tree[f].path)])
    /\ rops' = rops + 1
    /\ last' = [last EXCEPT !.moved = TRUE]
    /\ UNCHANGED nav
    /\ NavFrame

\* processPendingChanges (vault-observer.ts:140-147) with the view registered
NavFlush ==
    /\ inbox # << >>
    /\ nav' = NavNotify(nav, tree, inbox)
    /\ inbox' = << >>
    /\ last' = [last EXCEPT !.flushed = @ + 1]
    /\ UNCHANGED <<tree, rops>>
    /\ NavFrame

NextNav ==
    \/ \E f \in NFiles, d \in Folders : NavCreate(f, d)
    \/ \E f \in NFiles, detached \in BOOLEAN : NavDelete(f, detached)
    \/ \E f \in NFiles, d \in Folders : NavRename(f, d)
    \/ NavFlush

SpecNav == InitNav /\ [][NextNav]_vars

\* the number of files in the subtree of folder d
FilesUnder(d) == Cardinality({f \in LiveFiles : InSubtree(tree[f].parent, d)})

NavFlushed == inbox = << >> /\ last.flushed > 0

\* C38: after a flush that delivers file Created, Deleted or Renamed events
\* to the folder-tree view, the count displayed for every rendered folder
\* equals the number of files currently in that folder's subtree
C38_CountsCorrect ==
    NavFlushed => \A d \in nav.folderElements : nav.count[d] = FilesUnder(d)

(***************************************************************************)
(* The delivered change and the entity it refers to                        *)
(* (vault-observer.ts:3-8, 74-83, 154-177).  VaultChange.file is the       *)
(* TAbstractFile object itself, whose path the host rewrites at each       *)
(* rename; oldPath is a string copied at capture.                          *)
(***************************************************************************)
\* the path file f had right after the change before rest was captured: the
\* oldPath of the next rename of f in rest, or its present path when rest
\* holds none
RECURSIVE PathAfterCapture(_, _)
PathAfterCapture(f, rest) ==
    IF rest = << >> THEN tree[f].path
    ELSE IF Head(rest).f = f /\ Head(rest).kind = "rename" THEN Head(rest).oldPath
    ELSE PathAfterCapture(f, Tail(rest))

\* notifyViews calls the handler for the change at the head of the batch
Delivering == batch # << >> /\ batch' = Tail(batch)

\* C39: the path a handler reads from the delivered change at flush time is
\* the path the entity had right after the captured mutation, and the
\* previous path is the one it had before it, also when the entity is
\* renamed again between capture and flush
C39_ImmutableRecord ==
    [][Delivering =>
          LET ev == Head(batch)
          IN  /\ last'.of[ev.f].new = PathAfterCapture(ev.f, Tail(batch))
              /\ ev.kind = "rename" => last'.of[ev.f].old = ev.oldPath]_vars

====
